---- MODULE Spec2Model ----
(***************************************************************************)
(* Verification model of the minecraft-api repository.                     *)
(*                                                                         *)
(*   SpecUpload  - the object-storage upload CLI, from parseOptions to the *)
(*                 exit code (src/unnamed/part_002, main).                 *)
(*   SpecCollect - the file collection and key formation of the upload CLI *)
(*                 over a directory tree (collectFiles, main 173-211).     *)
(*   SpecScrape  - one run of the items script or of the blocks script     *)
(*                 (src/scripts/items.ts, src/scripts/blocks.ts).          *)
(*   SpecCalls   - one call of a function of the scripts on arguments      *)
(*                 drawn from bounded sets.                                *)
(*                                                                         *)
(* The code between two awaits of one task runs as one action (a single     *)
(* event loop, no parallelism). Consecutive awaits of one task that touch   *)
(* no state shared with another task are taken as one step.                *)
(***************************************************************************)
EXTENDS Integers, Sequences, FiniteSets, Bags, TLC

VARIABLES
  \* ---- upload CLI (SpecUpload) ----
  input,        \* the resolved configuration inputs and the file-system fault
  options,      \* UploadOptions once parseOptions returned, NoOptions before
  files,        \* the sorted list of collected files (paths below publicDir)
  uPc,          \* position of main
  taskPc,       \* per file index: position of its limited task
  uploaded,     \* counter `uploaded`
  skipped,      \* counter `skipped`
  failed,       \* list `failed` of [file, error]
  exitCode,     \* process.exitCode (0 while undefined)
  summary,      \* what main printed at its end
  stored,       \* keys present in the bucket
  headSent,     \* per file index: number of HeadObject requests sent
  putSent,      \* per file index: number of PutObject requests sent
  headResult,   \* per file index: outcome of its HeadObject
  putResult,    \* per file index: outcome of its PutObject
  \* ---- file collection of the upload CLI (SpecCollect) ----
  tree,         \* the directory tree below publicDir: path -> kind of entry
  includeDirs,  \* options.includeDirs
  cPrefix,      \* options.prefix (normalized)
  cPc,          \* position of main between line 173 and line 211
  collected,    \* per upload root: what collectFiles returned, in root order
  cFiles,       \* `files`
  cKeys,        \* the key of every task, in task order
  \* ---- the scraping scripts (SpecScrape) ----
  script,        \* which script runs: "items" or "blocks"
  mainPc,        \* position of the script's main function
  nRows,         \* number of table rows found on the data page
  tPc,           \* per row: position of its limited task
  tName,         \* per row: the name read from the row, while the task runs
  items,         \* items.ts: `items`
  names,         \* items.ts: `names`, computed once from items.json
  itemsJson,     \* content of data/items.json
  blocks,        \* blocks.ts: `blocks`
  blocksJson,    \* content of data/blocks.json
  loaded,        \* the records loaded from the JSON file at start
  appended,      \* bag of the records pushed so far
  erroredItems,  \* items.ts: `erroredItems`, key -> the errors recorded for it
  failedItems,   \* keys of the named items whose processing threw
  rejected,      \* the row whose task rejected first and so rejected Promise.all
  reportJson,    \* content of data/items-errors.json
  reportTxt,     \* content of data/items-errors.txt
  reportCalls,   \* number of calls of writeErroredItemsReport
  browserOpen,   \* the browser has not been closed
  openPages,     \* owners of the per-item pages that are open
  passes,        \* the passes main has entered
  spIdx,         \* processSpecialItems: index of the current page
  spPc,          \* processSpecialItemPage: position
  spQueue,       \* processSpecialItemPage: items of the page still to process
  crashed,       \* the process was terminated by an unhandled rejection
  unhandledRejections,  \* what Node does with an unhandled rejection
  \* ---- one call of a function of the scripts (SpecCalls) ----
  call,          \* the function called and its arguments
  ret            \* what the call returned, once it has

svars == <<script, mainPc, nRows, tPc, tName, items, names, itemsJson, blocks,
           blocksJson, loaded, appended, erroredItems, failedItems, rejected,
           reportJson, reportTxt, reportCalls, browserOpen, openPages, passes,
           spIdx, spPc, spQueue, crashed, unhandledRejections>>

cvars == <<tree, includeDirs, cPrefix, cPc, collected, cFiles, cKeys>>

uvars == <<input, options, files, uPc, taskPc, uploaded, skipped, failed,
           exitCode, summary, stored, headSent, putSent, headResult, putResult>>

fvars == <<call, ret>>

vars == <<uvars, cvars, svars, fvars>>

--------------------------------------------------------------------------
(* Bounds *)

MaxFiles == 3
MaxConcurrency == 2
MaxNodes == 3       \* entries of the directory tree below the upload roots
MaxRows == 4        \* items.ts: rows of the data values table
MaxBlockRows == 5   \* blocks.ts: rows of the data values table
MaxSpecialPages == 2    \* entries of the special pages table that are processed
MaxSpecialItems == 1    \* items found on one special page
MaxDigits == 2      \* digits in the text of a Stackable row
MaxMatches == 2     \* entries of the types table that match one block name
MaxPrefixLen == 4   \* characters of the value of --prefix or R2_PREFIX
MaxEnvLines == 2    \* lines of the env file

--------------------------------------------------------------------------
(* Upload CLI: errors of the storage client *)

\* What client.send may throw: service errors (objects with $metadata and a
\* name) and a non-object value.
NotFound404 == [kind |-> "object", code |-> 404, name |-> "NotFound"]
NoSuchKey == [kind |-> "object", code |-> 0, name |-> "NoSuchKey"]
Forbidden403 == [kind |-> "object", code |-> 403, name |-> "Forbidden"]
Internal500 == [kind |-> "object", code |-> 500, name |-> "InternalError"]
Timeout == [kind |-> "string", code |-> 0, name |-> ""]

\* A request that returned, and a request not answered yet.
Ok == [kind |-> "ok", code |-> 200, name |-> ""]
NoResult == [kind |-> "none", code |-> 0, name |-> ""]
NoSummary == [kind |-> "none", count |-> 0]

MissingErrors == {NotFound404, NoSuchKey}
OtherErrors == {Forbidden403, Timeout}
PutErrors == {Internal500}

isNotFoundErrorNameOnly(error) ==
  IF error.kind # "object" THEN FALSE
  ELSE error.name = "NotFound"

isNotFoundError(error) ==
  IF error.kind # "object" THEN FALSE
  ELSE error.code = 404 \/ error.name = "NotFound" \/ error.name = "NoSuchKey"

--------------------------------------------------------------------------
(* Upload CLI: inputs *)

FilePool == <<"blocks/a.png", "items/b.png">>

\* Sorted lists over FilePool of at most MaxFiles entries; a path is listed
\* twice when --include names its directory twice.
FileLists ==
  { [i \in 1..(na + nb) |-> IF i <= na THEN FilePool[1] ELSE FilePool[2]] :
      <<na, nb>> \in { p \in (0..MaxFiles) \X (0..MaxFiles) : p[1] + p[2] <= MaxFiles } }

Prefixes == {"", "v1/"}

NaN == -1

Inputs ==
  [ bucket : {"", "bkt"},
    endpoint : {"", "https://ep"},
    accessKeyId : {"", "key"},
    concurrency : {NaN, 0} \cup (1..MaxConcurrency),
    prefix : Prefixes,
    dryRun : BOOLEAN,
    skipExisting : BOOLEAN,
    fsFault : {"none", "missingDir", "readdirThrows"} ]

NoOptions == [bucket |-> "", endpoint |-> "", prefix |-> "", concurrency |-> 0,
              dryRun |-> FALSE, skipExisting |-> FALSE]

\* parseOptions: the checks that throw, in source order.
parseOptionsThrows(in) ==
  \/ in.bucket = ""
  \/ in.endpoint = ""
  \/ in.accessKeyId = ""
  \/ in.concurrency = NaN
  \/ in.concurrency <= 0

parseOptions(in) ==
  [bucket |-> in.bucket, endpoint |-> in.endpoint, prefix |-> in.prefix,
   concurrency |-> in.concurrency, dryRun |-> in.dryRun,
   skipExisting |-> in.skipExisting]

Key(i) == options.prefix \o files[i]

Indices == 1..Len(files)

Running == { i \in Indices : taskPc[i] \in {"head", "put"} }

AllDone == \A i \in Indices : taskPc[i] = "done"

--------------------------------------------------------------------------
(* Upload CLI: main *)

UploadStart(in) ==
  /\ input = in
  /\ options = NoOptions
  /\ files = <<>>
  /\ uPc = "start"
  /\ taskPc = <<>>
  /\ uploaded = 0
  /\ skipped = 0
  /\ failed = <<>>
  /\ exitCode = 0
  /\ summary = NoSummary
  /\ stored = {}
  /\ headSent = <<>>
  /\ putSent = <<>>
  /\ headResult = <<>>
  /\ putResult = <<>>

\* main().catch: console.error(error); process.exitCode = 1.
MainCatch ==
  /\ exitCode' = 1
  /\ summary' = [kind |-> "error", count |-> 0]
  /\ uPc' = "done"

\* Lines 171-172: loadEnvFileIfPresent, parseOptions.
ParseOptions ==
  /\ uPc = "start"
  /\ IF parseOptionsThrows(input)
       THEN /\ MainCatch
            /\ UNCHANGED options
       ELSE /\ options' = parseOptions(input)
            /\ uPc' = "collect"
            /\ UNCHANGED <<exitCode, summary>>
  /\ UNCHANGED <<input, files, taskPc, uploaded, skipped, failed, stored,
                 headSent, putSent, headResult, putResult>>

\* Lines 173-208: the directory check, collectFiles over the roots, the sort,
\* the client, the counters and the creation of one limited task per file.
\* The listing found on disk and the content of the bucket are read here.
CollectFiles ==
  /\ uPc = "collect"
  /\ IF input.fsFault # "none"
       THEN /\ MainCatch
            /\ UNCHANGED <<files, taskPc, stored, headSent, putSent, headResult,
                           putResult>>
       ELSE /\ \E fl \in FileLists :
                 /\ files' = fl
                 /\ taskPc' = [i \in 1..Len(fl) |-> "queued"]
                 /\ headSent' = [i \in 1..Len(fl) |-> 0]
                 /\ putSent' = [i \in 1..Len(fl) |-> 0]
                 /\ headResult' = [i \in 1..Len(fl) |-> NoResult]
                 /\ putResult' = [i \in 1..Len(fl) |-> NoResult]
                 /\ \E present \in SUBSET { options.prefix \o fl[i] : i \in 1..Len(fl) } :
                      stored' = present
            /\ uPc' = "tasks"
            /\ UNCHANGED <<exitCode, summary>>
  /\ UNCHANGED <<input, options, uploaded, skipped, failed>>

\* p-limit: the next queued task starts when fewer than `concurrency` run.
CanStart(i) ==
  /\ taskPc[i] = "queued"
  /\ \A j \in Indices : j < i => taskPc[j] # "queued"
  /\ Cardinality(Running) < options.concurrency

\* StartTask with `uploaded` counted when the PutObject is sent, not when it
\* returned.
StartTaskCountsAtSend(i) ==
  /\ uPc = "tasks"
  /\ i \in Indices
  /\ CanStart(i)
  /\ IF options.dryRun
       THEN /\ uploaded' = uploaded + 1
            /\ taskPc' = [taskPc EXCEPT ![i] = "done"]
            /\ UNCHANGED <<headSent, putSent>>
       ELSE IF options.skipExisting
         THEN /\ headSent' = [headSent EXCEPT ![i] = @ + 1]
              /\ taskPc' = [taskPc EXCEPT ![i] = "head"]
              /\ UNCHANGED <<uploaded, putSent>>
         ELSE /\ putSent' = [putSent EXCEPT ![i] = @ + 1]
              /\ uploaded' = uploaded + 1
              /\ taskPc' = [taskPc EXCEPT ![i] = "put"]
              /\ UNCHANGED headSent
  /\ UNCHANGED <<input, options, files, uPc, skipped, failed, exitCode, summary,
                 stored, headResult, putResult>>

\* StartTask with the skip-existing check placed before the dry-run check.
StartTaskHeadBeforeDryRun(i) ==
  /\ uPc = "tasks"
  /\ i \in Indices
  /\ CanStart(i)
  /\ IF options.skipExisting
       THEN /\ headSent' = [headSent EXCEPT ![i] = @ + 1]
            /\ taskPc' = [taskPc EXCEPT ![i] = "head"]
            /\ UNCHANGED <<uploaded, putSent>>
       ELSE IF options.dryRun
         THEN /\ uploaded' = uploaded + 1
              /\ taskPc' = [taskPc EXCEPT ![i] = "done"]
              /\ UNCHANGED <<headSent, putSent>>
         ELSE /\ putSent' = [putSent EXCEPT ![i] = @ + 1]
              /\ taskPc' = [taskPc EXCEPT ![i] = "put"]
              /\ UNCHANGED <<uploaded, headSent>>
  /\ UNCHANGED <<input, options, files, uPc, skipped, failed, exitCode, summary,
                 stored, headResult, putResult>>

\* Lines 209-250, from the task's start to its first await.
StartTask(i) ==
  /\ uPc = "tasks"
  /\ i \in Indices
  /\ CanStart(i)
  /\ IF options.dryRun
       THEN /\ uploaded' = uploaded + 1
            /\ taskPc' = [taskPc EXCEPT ![i] = "done"]
            /\ UNCHANGED <<headSent, putSent>>
       ELSE IF options.skipExisting
         THEN /\ headSent' = [headSent EXCEPT ![i] = @ + 1]
              /\ taskPc' = [taskPc EXCEPT ![i] = "head"]
              /\ UNCHANGED <<uploaded, putSent>>
         ELSE /\ putSent' = [putSent EXCEPT ![i] = @ + 1]
              /\ taskPc' = [taskPc EXCEPT ![i] = "put"]
              /\ UNCHANGED <<uploaded, headSent>>
  /\ UNCHANGED <<input, options, files, uPc, skipped, failed, exitCode, summary,
                 stored, headResult, putResult>>

\* What the HeadObject of a key may answer.
HeadAnswers(key) ==
  IF key \in stored THEN {Ok} \cup OtherErrors
  ELSE MissingErrors \cup OtherErrors

\* HeadReturns without the `return` after `skipped += 1`: the task goes on to
\* the PutObject.
HeadReturnsFallsThrough(i) ==
  /\ uPc = "tasks"
  /\ i \in Indices
  /\ taskPc[i] = "head"
  /\ \E r \in HeadAnswers(Key(i)) :
       /\ headResult' = [headResult EXCEPT ![i] = r]
       /\ IF r = Ok
            THEN /\ skipped' = skipped + 1
                 /\ putSent' = [putSent EXCEPT ![i] = @ + 1]
                 /\ taskPc' = [taskPc EXCEPT ![i] = "put"]
                 /\ UNCHANGED failed
            ELSE IF isNotFoundError(r)
              THEN /\ putSent' = [putSent EXCEPT ![i] = @ + 1]
                   /\ taskPc' = [taskPc EXCEPT ![i] = "put"]
                   /\ UNCHANGED <<failed, skipped>>
              ELSE /\ failed' = Append(failed, [file |-> files[i], task |-> i, error |-> r])
                   /\ taskPc' = [taskPc EXCEPT ![i] = "done"]
                   /\ UNCHANGED <<skipped, putSent>>
  /\ UNCHANGED <<input, options, files, uPc, uploaded, exitCode, summary, stored,
                 headSent, putResult>>

\* Lines 224-238 and 256-259: the HeadObject request returns or throws.
HeadReturns(i) ==
  /\ uPc = "tasks"
  /\ i \in Indices
  /\ taskPc[i] = "head"
  /\ \E r \in HeadAnswers(Key(i)) :
       /\ headResult' = [headResult EXCEPT ![i] = r]
       /\ IF r = Ok
            THEN /\ skipped' = skipped + 1
                 /\ taskPc' = [taskPc EXCEPT ![i] = "done"]
                 /\ UNCHANGED <<failed, putSent>>
            ELSE IF isNotFoundError(r)
              THEN /\ putSent' = [putSent EXCEPT ![i] = @ + 1]
                   /\ taskPc' = [taskPc EXCEPT ![i] = "put"]
                   /\ UNCHANGED <<failed, skipped>>
              ELSE /\ failed' = Append(failed, [file |-> files[i], task |-> i, error |-> r])
                   /\ taskPc' = [taskPc EXCEPT ![i] = "done"]
                   /\ UNCHANGED <<skipped, putSent>>
  /\ UNCHANGED <<input, options, files, uPc, uploaded, exitCode, summary, stored,
                 headSent, putResult>>

\* Lines 242-259: the PutObject request returns or throws.
PutReturns(i) ==
  /\ uPc = "tasks"
  /\ i \in Indices
  /\ taskPc[i] = "put"
  /\ \E r \in {Ok} \cup PutErrors :
       /\ putResult' = [putResult EXCEPT ![i] = r]
       /\ IF r = Ok
            THEN /\ uploaded' = uploaded + 1
                 /\ stored' = stored \cup {Key(i)}
                 /\ UNCHANGED failed
            ELSE /\ failed' = Append(failed, [file |-> files[i], task |-> i, error |-> r])
                 /\ UNCHANGED <<uploaded, stored>>
  /\ taskPc' = [taskPc EXCEPT ![i] = "done"]
  /\ UNCHANGED <<input, options, files, uPc, skipped, exitCode, summary,
                 headSent, putSent, headResult>>

\* Finish without `process.exitCode = 1` in the failure branch.
FinishKeepsExitCode ==
  /\ uPc = "tasks"
  /\ AllDone
  /\ summary' = IF Len(failed) > 0 THEN [kind |-> "failed", count |-> Len(failed)]
                ELSE [kind |-> "upload", count |-> uploaded]
  /\ uPc' = "done"
  /\ UNCHANGED <<input, options, files, taskPc, uploaded, skipped, failed, stored,
                 headSent, putSent, headResult, putResult, exitCode>>

\* Lines 263-282: after Promise.all, the failure report or the summary.
Finish ==
  /\ uPc = "tasks"
  /\ AllDone
  /\ IF Len(failed) > 0
       THEN /\ exitCode' = 1
            /\ summary' = [kind |-> "failed", count |-> Len(failed)]
       ELSE /\ summary' = [kind |-> IF options.dryRun THEN "dry-run"
                                    ELSE IF options.skipExisting THEN "skip-existing"
                                    ELSE "upload",
                           count |-> uploaded]
            /\ UNCHANGED exitCode
  /\ uPc' = "done"
  /\ UNCHANGED <<input, options, files, taskPc, uploaded, skipped, failed, stored,
                 headSent, putSent, headResult, putResult>>

--------------------------------------------------------------------------
(* Upload CLI: strings, paths and the directory tree *)

\* A string is a sequence of one-character strings.
Slash == <<"/">>
Blocks == <<"b", "l", "o", "c", "k", "s">>
Items == <<"i", "t", "e", "m", "s">>
NameA == <<"a">>
NameHidden == <<".", "h">>
BaseDir == <<"/", "p">>

\* The characters used, in UTF-16 code unit order.
Alphabet == <<".", "/", "1", "a", "b", "c", "e", "h", "i", "k", "l", "m", "o",
              "p", "s", "t", "v">>

CharCode(c) == CHOOSE n \in 1..Len(Alphabet) : Alphabet[n] = c

\* a < b in the order Array.prototype.sort() uses for strings.
RECURSIVE StrLess(_, _)
StrLess(a, b) ==
  IF b = <<>> THEN FALSE
  ELSE IF a = <<>> THEN TRUE
  ELSE IF Head(a) # Head(b) THEN CharCode(Head(a)) < CharCode(Head(b))
  ELSE StrLess(Tail(a), Tail(b))

\* Insertion of one string into a sorted list, and files.sort().
RECURSIVE InsertSorted(_, _)
InsertSorted(list, x) ==
  IF list = <<>> THEN <<x>>
  ELSE IF StrLess(x, Head(list)) THEN <<x>> \o list
  ELSE <<Head(list)>> \o InsertSorted(Tail(list), x)

RECURSIVE SortStrings(_)
SortStrings(list) ==
  IF list = <<>> THEN <<>>
  ELSE InsertSorted(SortStrings(Tail(list)), Head(list))

RECURSIVE Flat(_)
Flat(lists) == IF lists = <<>> THEN <<>> ELSE Head(lists) \o Flat(Tail(lists))

\* path.join(dir, name) for a name without separators.
pathJoin(dir, name) == dir \o Slash \o name

\* path.relative(base, p) for p below base.
pathRelative(base, p) == SubSeq(p, Len(base) + 2, Len(p))

\* s.split(sep): the pieces of s between occurrences of the character sep.
RECURSIVE Split(_, _)
Split(str, sep) ==
  IF \A k \in 1..Len(str) : str[k] # sep THEN <<str>>
  ELSE LET k == CHOOSE n \in 1..Len(str) :
                  str[n] = sep /\ \A m \in 1..(n - 1) : str[m] # sep
       IN <<SubSeq(str, 1, k - 1)>> \o Split(SubSeq(str, k + 1, Len(str)), sep)

\* parts.join(glue)
RECURSIVE Join(_, _)
Join(parts, glue) ==
  IF parts = <<>> THEN <<>>
  ELSE IF Len(parts) = 1 THEN parts[1]
  ELSE parts[1] \o glue \o Join(Tail(parts), glue)

\* path.sep on the platform of the run.
PathSep == "/"

startsWithDot(name) == Len(name) > 0 /\ name[1] = "."

\* The tree maps a path (the names from publicDir down) to the kind of the
\* entry found there: "file", "dir" or "other" (a link, a socket, ...).
EntryNames == {NameA, NameHidden}
RootNames == {Blocks, Items}
EntryPaths ==
  { <<r, n>> : r \in RootNames, n \in EntryNames }
    \cup { <<r, n, m>> : r \in RootNames, n \in EntryNames, m \in EntryNames }
EntryKinds == {"file", "dir", "other"}

Parent(path) == SubSeq(path, 1, Len(path) - 1)

Trees ==
  UNION { { t \in [ { <<Blocks>> } \cup rs \cup S -> EntryKinds ] :
              /\ \A q \in { <<Blocks>> } \cup rs : t[q] = "dir"
              /\ \A q \in S : t[Parent(q)] = "dir" } :
          <<rs, S>> \in
            { x \in (SUBSET { <<Items>> }) \X (SUBSET EntryPaths) :
                /\ Cardinality(x[2]) <= MaxNodes
                /\ \A q \in x[2] : Parent(q) \in { <<Blocks>> } \cup x[1] \cup x[2] } }

IncludeLists == { <<Blocks, Items>>, <<Blocks>>, <<Items, Blocks>>, <<Blocks, Blocks>> }

NormalizedPrefixes == { <<>>, <<"v", "1", "/">> }

\* fs.promises.readdir(dir, { withFileTypes: true }): the entries of dir, here
\* in descending order of name.
RECURSIVE ListDescending(_)
ListDescending(S) ==
  IF S = {} THEN <<>>
  ELSE LET x == CHOOSE y \in S : \A z \in S \ {y} : StrLess(z[Len(z)], y[Len(y)])
       IN <<x>> \o ListDescending(S \ {x})

readdir(dirPath) ==
  ListDescending({ q \in DOMAIN tree : Len(q) = Len(dirPath) + 1 /\ Parent(q) = dirPath })

\* collectFiles without the test of a leading "." in the entry name.
RECURSIVE collectEntriesKeepsHidden(_, _)
collectEntriesKeepsHidden(dir, entries) ==
  IF entries = <<>> THEN <<>>
  ELSE LET entry == Head(entries)
           name == entry[Len(entry)]
           fullPath == pathJoin(dir, name)
       IN (IF tree[entry] = "dir"
             THEN collectEntriesKeepsHidden(fullPath, readdir(entry))
           ELSE IF tree[entry] = "file" THEN <<fullPath>>
           ELSE <<>>)
          \o collectEntriesKeepsHidden(dir, Tail(entries))

\* collectFiles, lines 96-111: the loop over the entries of dir.
RECURSIVE collectEntries(_, _)
collectEntries(dir, entries) ==
  IF entries = <<>> THEN <<>>
  ELSE LET entry == Head(entries)
           name == entry[Len(entry)]
           fullPath == pathJoin(dir, name)
       IN (IF startsWithDot(name) THEN <<>>
           ELSE IF tree[entry] = "dir" THEN collectEntries(fullPath, readdir(entry))
           ELSE IF tree[entry] = "file" THEN <<fullPath>>
           ELSE <<>>)
          \o collectEntries(dir, Tail(entries))

collectFiles(dir, dirPath) == collectEntries(dir, readdir(dirPath))

\* Lines 210-211: the key of a file.
keyOf(prefix, filePath) ==
  prefix \o Join(Split(pathRelative(BaseDir, filePath), PathSep), Slash)

--------------------------------------------------------------------------
(* Upload CLI: main from the upload roots to the keys *)

CollectStart(t, inc, pre) ==
  /\ tree = t
  /\ includeDirs = inc
  /\ cPrefix = pre
  /\ cPc = "checkRoots"
  /\ collected = <<>>
  /\ cFiles = <<>>
  /\ cKeys = <<>>

\* Lines 174-180: every upload root must be an existing directory.
CheckRoots ==
  /\ cPc = "checkRoots"
  /\ cPc' = IF \A k \in 1..Len(includeDirs) :
                  <<includeDirs[k]>> \in DOMAIN tree /\ tree[<<includeDirs[k]>>] = "dir"
            THEN "collect" ELSE "threw"
  /\ UNCHANGED <<tree, includeDirs, cPrefix, collected, cFiles, cKeys>>

\* Lines 182-188: collectFiles of the next upload root returns.
CollectRoot ==
  /\ cPc = "collect"
  /\ Len(collected) < Len(includeDirs)
  /\ LET d == includeDirs[Len(collected) + 1]
     IN collected' = Append(collected, collectFiles(pathJoin(BaseDir, d), <<d>>))
  /\ UNCHANGED <<tree, includeDirs, cPrefix, cPc, cFiles, cKeys>>

\* Lines 189-191: .flat() and files.sort().
SortFiles ==
  /\ cPc = "collect"
  /\ Len(collected) = Len(includeDirs)
  /\ cFiles' = SortStrings(Flat(collected))
  /\ cPc' = "keys"
  /\ UNCHANGED <<tree, includeDirs, cPrefix, collected, cKeys>>

\* Lines 208-211: one task per file, each with its key.
FormKeys ==
  /\ cPc = "keys"
  /\ cKeys' = [k \in 1..Len(cFiles) |-> keyOf(cPrefix, cFiles[k])]
  /\ cPc' = "done"
  /\ UNCHANGED <<tree, includeDirs, cPrefix, collected, cFiles>>

--------------------------------------------------------------------------
(* Scraping scripts: data *)

ItemsLimit == 3     \* items.ts: pLimit(3)
BlocksLimit == 4    \* blocks.ts: pLimit(4)

EXCLUDED_ITEMS ==
  {"Lingering Potion", "Potion", "Splash Potion", "Tipped Arrow", "Music Disc",
   "Chorus Plant", "Ominous Shield"}

\* What getItemName may read from a row.
RowNames == {"", "Potion", "A", "B"}
\* What getSpecialItemsData may find on a special page.
SpecialItemNames == {"S"}
\* What a row of the blocks table may hold as its name.
BlockNames == {"A", "B"}

\* The `page` column of the table of processSpecialItems.
SpecialPageTable ==
  <<"Tipped_Arrow", "Bundle", "Shield", "Potion", "Splash_Potion",
    "Lingering_Potion", "Map", "Explorer_Map", "Music_Disc">>

Min(a, b) == IF a < b THEN a ELSE b
SpecialPages == SubSeq(SpecialPageTable, 1, Min(MaxSpecialPages, Len(SpecialPageTable)))

\* The owner of the page of processSpecialItemPage among the open pages; the
\* page of a row's task is owned by the row's number.
SpecialPage == 0

PageErrorName(pageName) == "page:" \o pageName

\* The names that occur, in the order of String.prototype.localeCompare.
NameOrder ==
  <<"A", "B", "page:Bundle", "page:Explorer_Map", "page:Lingering_Potion",
    "page:Map", "page:Music_Disc", "page:Potion", "page:Shield",
    "page:Splash_Potion", "page:Tipped_Arrow", "S">>
NameRank(n) == CHOOSE k \in 1..Len(NameOrder) : NameOrder[k] = n
CategoryRank(c) == IF c = "regular" THEN 1 ELSE 2

Record(n, id) == [name |-> n, namespacedId |-> id]

\* items.ts, getNamespacedId: the text of the <code> element of the row that
\* holds the name, "" without such an element. The row of "B" is the row of
\* an item that also has a special page (Bundle, Shield).
getNamespacedId(name) ==
  IF name = "A" THEN "a" ELSE IF name = "B" THEN "bundle" ELSE ""

\* The `namespacedId` column of the table of processSpecialItems; the last
\* entry is null.
SpecialPageIds ==
  <<"tipped_arrow", "bundle", "shield", "potion", "splash_potion",
    "lingering_potion", "filled_map", "filled_map", "">>

\* processSpecialItemPage, lines 912-920 and 936: the namespacedId of an item
\* of the page, which is the page's but for the music discs.
SpecialNamespacedId(idx, name) ==
  IF SpecialPageTable[idx] = "Music_Disc" THEN "music_disc_" \o name
  ELSE SpecialPageIds[idx]

\* blocks.ts, lines 172-179: the item form id of the row or the text of its
\* <code> element.
BlockNamespacedId(name) == IF name = "A" THEN "a" ELSE "b"

\* sortByKey(list, "name"): the list in ascending order of name.
RECURSIVE InsertByName(_, _)
InsertByName(list, rec) ==
  IF list = <<>> THEN <<rec>>
  ELSE IF NameRank(rec.name) < NameRank(Head(list).name) THEN <<rec>> \o list
  ELSE <<Head(list)>> \o InsertByName(Tail(list), rec)

RECURSIVE sortByKey(_)
sortByKey(list) ==
  IF list = <<>> THEN <<>>
  ELSE InsertByName(sortByKey(SubSeq(list, 1, Len(list) - 1)), list[Len(list)])

RECURSIVE BagOfSeq(_)
BagOfSeq(list) ==
  IF list = <<>> THEN EmptyBag
  ELSE BagOfSeq(Tail(list)) (+) SetToBag({Head(list)})

\* The lists items.json or blocks.json may hold at the start of a run.
InitialLists == { <<>>, <<Record("A", "a")>> }

Rows == 1..nRows

InProgress == { r \in Rows : tPc[r] \notin {"queued", "done"} }
AllTasksDone == \A r \in Rows : tPc[r] = "done"

limitSize == IF script = "items" THEN ItemsLimit ELSE BlocksLimit

\* p-limit without its count of active tasks.
MayStartUnlimited(r) ==
  /\ tPc[r] = "queued"
  /\ \A q \in Rows : q < r => tPc[q] # "queued"

\* p-limit: a queued task starts, in the order of the rows, when fewer than
\* the limit are in progress.
MayStart(r) ==
  /\ tPc[r] = "queued"
  /\ \A q \in Rows : q < r => tPc[q] # "queued"
  /\ Cardinality(InProgress) < limitSize

\* items.ts, shouldProcessItem.
shouldProcessItem(name) ==
  name # "" /\ name \notin names /\ name \notin EXCLUDED_ITEMS

\* items.ts, recordItemError: the map after recording one error. The entry's
\* list of {stage, message} is kept as its length.
recordItemError(map, category, stage, name) ==
  LET key == <<category, name>>
  IN IF key \in DOMAIN map
       THEN [map EXCEPT ![key] = @ + 1]
       ELSE [k \in DOMAIN map \cup {key} |-> IF k = key THEN 1 ELSE map[k]]

KeyLess(a, b) ==
  IF a[1] # b[1] THEN CategoryRank(a[1]) < CategoryRank(b[1])
  ELSE NameRank(a[2]) < NameRank(b[2])

\* The entries of the map sorted by category, then by name.
RECURSIVE SortedKeys(_)
SortedKeys(S) ==
  IF S = {} THEN <<>>
  ELSE LET k == CHOOSE x \in S : \A y \in S \ {x} : KeyLess(x, y)
       IN <<k>> \o SortedKeys(S \ {k})

ReportEntries(map) ==
  LET ks == SortedKeys(DOMAIN map)
  IN [i \in 1..Len(ks) |-> [category |-> ks[i][1], name |-> ks[i][2], errors |-> map[ks[i]]]]

NoReport == <<>>

\* items.ts, writeErroredItemsReport: nothing is written without entries.
writeErroredItemsReport(map) ==
  /\ reportCalls' = reportCalls + 1
  /\ IF DOMAIN map = {}
       THEN UNCHANGED <<reportJson, reportTxt>>
       ELSE /\ reportJson' = ReportEntries(map)
            /\ reportTxt' = [i \in 1..Len(ReportEntries(map)) |-> ReportEntries(map)[i].name]

\* items.ts, main: the catch and finally blocks up to `await browser.close()`.
MainFinally ==
  /\ writeErroredItemsReport(erroredItems)
  /\ mainPc' = "closing"

\* A page left open where the code calls close().
leavePageOpen(pages, page) == pages

\* page.close() (items.ts:478 and 970, blocks.ts:218, 658, 662 and 669): the
\* page is no longer among the browser's open pages.
closePage(pages, page) == pages \ {page}

sStatic == <<script, names, loaded, unhandledRejections>>
sTask == <<tPc, tName>>
sItems == <<items, itemsJson, appended>>
sBlocks == <<blocks, blocksJson>>
sErr == <<erroredItems, failedItems>>
sReport == <<reportJson, reportTxt, reportCalls>>
sSpecial == <<spIdx, spPc, spQueue>>
sBrowser == <<browserOpen, openPages>>

ScrapeStart(sc, list, mode) ==
  /\ script = sc
  /\ unhandledRejections = mode
  /\ mainPc = "openDataPage"
  /\ nRows = 0
  /\ tPc = <<>>
  /\ tName = <<>>
  /\ items = IF sc = "items" THEN list ELSE <<>>
  /\ names = IF sc = "items" THEN { list[k].name : k \in 1..Len(list) } ELSE {}
  /\ itemsJson = IF sc = "items" THEN list ELSE <<>>
  /\ blocks = IF sc = "blocks" THEN list ELSE <<>>
  /\ blocksJson = IF sc = "blocks" THEN list ELSE <<>>
  /\ loaded = list
  /\ appended = EmptyBag
  /\ erroredItems = <<>>
  /\ failedItems = {}
  /\ rejected = {}
  /\ reportJson = NoReport
  /\ reportTxt = NoReport
  /\ reportCalls = 0
  /\ browserOpen = TRUE
  /\ openPages = {}
  /\ passes = {}
  /\ spIdx = 0
  /\ spPc = "idle"
  /\ spQueue = <<>>
  /\ crashed = FALSE

--------------------------------------------------------------------------
(* items.ts *)

\* main, lines 1016-1019, and processRegularItems, lines 257-265: the browser
\* is launched, the data page is opened and its rows are selected.
OpenDataPage ==
  /\ script = "items"
  /\ mainPc = "openDataPage"
  /\ \/ /\ \E n \in 0..MaxRows :
             /\ nRows' = n
             /\ tPc' = [r \in 1..n |-> "queued"]
             /\ tName' = [r \in 1..n |-> ""]
        /\ mainPc' = "regular"
        /\ passes' = passes \cup {"regular"}
        /\ UNCHANGED sReport
     \/ /\ MainFinally
        /\ UNCHANGED <<nRows, sTask, passes>>
  /\ UNCHANGED <<sStatic, sItems, sBlocks, sErr, rejected, sBrowser, sSpecial, crashed>>

\* The limited task of a row starts: getItemName is called (line 266).
StartItemTask(r) ==
  /\ script = "items"
  /\ r \in Rows
  /\ MayStart(r)
  /\ tPc' = [tPc EXCEPT ![r] = "getItemName"]
  /\ UNCHANGED <<sStatic, nRows, tName, mainPc, sItems, sBlocks, sErr, rejected,
                 sReport, sBrowser, passes, sSpecial, crashed>>

\* Lines 266-267: getItemName returns or throws. Nothing catches its error:
\* the task's promise rejects, and with it Promise.all and
\* processRegularItems, so that main runs its catch and finally blocks.
GetItemName(r) ==
  /\ script = "items"
  /\ r \in Rows
  /\ tPc[r] = "getItemName"
  /\ \/ /\ browserOpen
        /\ \E n \in RowNames :
             IF shouldProcessItem(n)
               THEN /\ tPc' = [tPc EXCEPT ![r] = "getNamespacedId"]
                    /\ tName' = [tName EXCEPT ![r] = n]
               ELSE /\ tPc' = [tPc EXCEPT ![r] = "done"]
                    /\ UNCHANGED tName
        /\ UNCHANGED <<rejected, mainPc, sReport>>
     \/ /\ tPc' = [tPc EXCEPT ![r] = "done"]
        /\ rejected' = IF rejected = {} THEN {r} ELSE rejected
        /\ IF mainPc = "regular"
             THEN MainFinally
             ELSE UNCHANGED <<mainPc, sReport>>
        /\ UNCHANGED tName
  /\ UNCHANGED <<sStatic, nRows, sItems, sBlocks, sErr, sBrowser, passes, sSpecial,
                 crashed>>

\* The push with the rewrite of the file left to the end of the pass.
PushWithoutWrite(rec) ==
  /\ items' = sortByKey(Append(items, rec))
  /\ itemsJson' = itemsJson
  /\ appended' = appended (+) SetToBag({rec})

\* items.ts, writeItems after items.push: the list is sorted in place and the
\* whole file is rewritten.
PushAndWriteItem(rec) ==
  /\ items' = sortByKey(Append(items, rec))
  /\ itemsJson' = sortByKey(Append(items, rec))
  /\ appended' = appended (+) SetToBag({rec})

\* A catch block that records the error and puts the row back in the queue.
ItemFailsAndRequeues(r, stage) ==
  /\ erroredItems' = recordItemError(erroredItems, "regular", stage, tName[r])
  /\ failedItems' = failedItems \cup {<<"regular", tName[r]>>}
  /\ tPc' = [tPc EXCEPT ![r] = "queued"]
  /\ tName' = [tName EXCEPT ![r] = ""]
  /\ UNCHANGED sItems

\* A catch block reached after items.push and writeItems.
ItemFailsAfterPush(r, stage) ==
  /\ erroredItems' = recordItemError(erroredItems, "regular", stage, tName[r])
  /\ failedItems' = failedItems \cup {<<"regular", tName[r]>>}
  /\ tPc' = [tPc EXCEPT ![r] = "done"]
  /\ tName' = [tName EXCEPT ![r] = ""]
  /\ PushAndWriteItem(Record(tName[r], getNamespacedId(tName[r])))

\* populateItemsJson, the catch blocks: the error of a named regular item is
\* recorded once, under the stage that threw. Every throw is before
\* items.push (line 240): the list and the file are left alone.
ItemFails(r, stage) ==
  /\ erroredItems' = recordItemError(erroredItems, "regular", stage, tName[r])
  /\ failedItems' = failedItems \cup {<<"regular", tName[r]>>}
  /\ tPc' = [tPc EXCEPT ![r] = "done"]
  /\ tName' = [tName EXCEPT ![r] = ""]
  /\ UNCHANGED sItems

\* Lines 221-237 and getItemDetails, line 410: getNamespacedId, getItemPageUrl
\* and browser.newPage() return in turn, or one of them throws and its stage
\* is recorded. The three awaits read the data page and the browser only.
OpenItemPage(r) ==
  /\ script = "items"
  /\ r \in Rows
  /\ tPc[r] = "getNamespacedId"
  /\ \/ /\ browserOpen
        /\ openPages' = openPages \cup {r}
        /\ tPc' = [tPc EXCEPT ![r] = "itemPage"]
        /\ UNCHANGED <<tName, sErr, sItems>>
     \/ /\ \E stage \in {"getNamespacedId", "getItemPageUrl", "getItemDetails"} :
             ItemFails(r, stage)
        /\ UNCHANGED openPages
  /\ UNCHANGED <<sStatic, nRows, mainPc, sBlocks, rejected, sReport,
                 browserOpen, passes, sSpecial, crashed>>

\* getItemDetails, lines 411-479, and populateItemsJson, lines 237-249: the
\* work on the item page ends, the page is closed in the finally block, and
\* the record is pushed and written, or the error is recorded.
ItemPageDone(r) ==
  /\ script = "items"
  /\ r \in Rows
  /\ tPc[r] = "itemPage"
  /\ openPages' = closePage(openPages, r)
  /\ \/ /\ browserOpen
        /\ PushAndWriteItem(Record(tName[r], getNamespacedId(tName[r])))
        /\ tPc' = [tPc EXCEPT ![r] = "done"]
        /\ tName' = [tName EXCEPT ![r] = ""]
        /\ UNCHANGED sErr
     \/ ItemFails(r, "getItemDetails")
  /\ UNCHANGED <<sStatic, nRows, mainPc, sBlocks, rejected, sReport, browserOpen,
                 passes, sSpecial, crashed>>

\* processRegularItems returns (Promise.all resolved) and main calls
\* processSpecialItems, which asks for the page of the first table entry.
RegularDone ==
  /\ script = "items"
  /\ mainPc = "regular"
  /\ AllTasksDone
  /\ mainPc' = "special"
  /\ passes' = passes \cup {"special"}
  /\ spIdx' = 1
  /\ spPc' = "newPage"
  /\ UNCHANGED <<sStatic, nRows, sTask, sItems, sBlocks, sErr, rejected, sReport,
                 sBrowser, spQueue, crashed>>

\* processSpecialItemPage, line 897: browser.newPage() returns or throws; the
\* call is outside the try block, so its error reaches main.
SpecialNewPage ==
  /\ script = "items"
  /\ mainPc = "special"
  /\ spPc = "newPage"
  /\ \/ /\ openPages' = openPages \cup {SpecialPage}
        /\ spPc' = "load"
        /\ UNCHANGED <<mainPc, sReport>>
     \/ /\ MainFinally
        /\ spPc' = "idle"
        /\ UNCHANGED openPages
  /\ UNCHANGED <<sStatic, nRows, sTask, sItems, sBlocks, sErr, rejected,
                 browserOpen, passes, spIdx, spQueue, crashed>>

\* After a special page: the next table entry, or the end of
\* processSpecialItems (writeItems, line 881) and main's finally block.
AfterSpecialPage ==
  IF spIdx < Len(SpecialPages)
    THEN /\ spIdx' = spIdx + 1
         /\ spPc' = "newPage"
         /\ UNCHANGED <<mainPc, sReport, sItems>>
    ELSE /\ spIdx' = spIdx
         /\ spPc' = "idle"
         /\ items' = sortByKey(items)
         /\ itemsJson' = sortByKey(items)
         /\ UNCHANGED appended
         /\ MainFinally

\* processSpecialItemPage, lines 899-906 and 959-971: the page is loaded and
\* its items are read, or the page error is recorded and the page closed.
SpecialLoad ==
  /\ script = "items"
  /\ mainPc = "special"
  /\ spPc = "load"
  /\ \/ /\ \E n \in 0..MaxSpecialItems : \E q \in [1..n -> SpecialItemNames] :
             spQueue' = q
        /\ spPc' = "items"
        /\ UNCHANGED <<spIdx, mainPc, sReport, sItems, sErr, openPages>>
     \/ /\ erroredItems' = recordItemError(erroredItems, "special", "specialPage",
                                           PageErrorName(SpecialPages[spIdx]))
        /\ UNCHANGED failedItems
        /\ openPages' = closePage(openPages, SpecialPage)
        /\ UNCHANGED spQueue
        /\ IF spIdx < Len(SpecialPages)
             THEN /\ spIdx' = spIdx + 1
                  /\ spPc' = "newPage"
                  /\ UNCHANGED <<mainPc, sReport, sItems>>
             ELSE /\ spIdx' = spIdx
                  /\ spPc' = "idle"
                  /\ items' = sortByKey(items)
                  /\ itemsJson' = sortByKey(items)
                  /\ UNCHANGED appended
                  /\ writeErroredItemsReport(erroredItems')
                  /\ mainPc' = "closing"
  /\ UNCHANGED <<sStatic, nRows, sTask, sBlocks, rejected, browserOpen, passes,
                 crashed>>

\* processSpecialItemPage, lines 908-956: one item of the page is downloaded,
\* pushed and written, or its error is recorded.
SpecialItem ==
  /\ script = "items"
  /\ mainPc = "special"
  /\ spPc = "items"
  /\ spQueue # <<>>
  /\ \/ /\ PushAndWriteItem(Record(Head(spQueue), SpecialNamespacedId(spIdx, Head(spQueue))))
        /\ UNCHANGED sErr
     \/ /\ erroredItems' = recordItemError(erroredItems, "special", "specialItem",
                                           Head(spQueue))
        /\ failedItems' = failedItems \cup {<<"special", Head(spQueue)>>}
        /\ UNCHANGED sItems
  /\ spQueue' = Tail(spQueue)
  /\ UNCHANGED <<sStatic, nRows, sTask, mainPc, sBlocks, rejected, sReport,
                 sBrowser, passes, spIdx, spPc, crashed>>

\* processSpecialItemPage, lines 958-971: after the last item the page is
\* closed.
SpecialClose ==
  /\ script = "items"
  /\ mainPc = "special"
  /\ spPc = "items"
  /\ spQueue = <<>>
  /\ openPages' = closePage(openPages, SpecialPage)
  /\ AfterSpecialPage
  /\ UNCHANGED <<sStatic, nRows, sTask, sBlocks, sErr, rejected, browserOpen,
                 passes, spQueue, crashed>>

\* main, line 1025: browser.close() returns; every page is gone.
BrowserClosed ==
  /\ script = "items"
  /\ mainPc = "closing"
  /\ browserOpen' = FALSE
  /\ openPages' = {}
  /\ mainPc' = "done"
  /\ UNCHANGED <<sStatic, nRows, sTask, sItems, sBlocks, sErr, rejected, sReport,
                 passes, sSpecial, crashed>>

--------------------------------------------------------------------------
(* blocks.ts *)

\* A promise rejected with no handler. Node ends the process when its
\* unhandled-rejections mode is "throw" and prints a warning when it is "warn".
UnhandledRejection == crashed' = (unhandledRejections = "throw")

\* The limited task of row r rejects. The first rejection rejects Promise.all
\* and with it the promise of the script's main function, which has no
\* handler; Promise.all handles the later ones.
BlockTaskRejects(r) ==
  /\ tPc' = [tPc EXCEPT ![r] = "done"]
  /\ tName' = [tName EXCEPT ![r] = ""]
  /\ rejected' = IF rejected = {} THEN {r} ELSE rejected
  /\ IF mainPc = "rows"
       THEN mainPc' = "rejected" /\ UnhandledRejection
       ELSE UNCHANGED <<mainPc, crashed>>

\* Lines 143-164: the browser is launched, the data page and the explosion
\* page are loaded and the rows are selected; or one of these awaits throws.
BlocksOpenDataPage ==
  /\ script = "blocks"
  /\ ~crashed
  /\ mainPc = "openDataPage"
  /\ \/ /\ \E n \in 0..MaxBlockRows :
             /\ nRows' = n
             /\ tPc' = [r \in 1..n |-> "queued"]
             /\ tName' = [r \in 1..n |-> ""]
        /\ mainPc' = "rows"
        /\ UNCHANGED crashed
     \/ /\ mainPc' = "rejected"
        /\ UnhandledRejection
        /\ UNCHANGED <<nRows, sTask>>
  /\ UNCHANGED <<sStatic, sItems, sBlocks, sErr, rejected, sReport, sBrowser,
                 passes, sSpecial>>

\* The limited task of a row starts (line 165): row.$ is asked for the cell.
StartBlockTask(r) ==
  /\ script = "blocks"
  /\ ~crashed
  /\ r \in Rows
  /\ MayStart(r)
  /\ tPc' = [tPc EXCEPT ![r] = "getName"]
  /\ UNCHANGED <<sStatic, nRows, tName, mainPc, sItems, sBlocks, sErr, rejected,
                 sReport, sBrowser, passes, sSpecial, crashed>>

\* Lines 166-207. The name is read outside the try block, so an error of
\* these awaits rejects the task. Inside the try block the row is left when
\* the list holds a block of that name (line 170) or when the row has no
\* image (line 188); the row's cells are read, the image is downloaded and
\* the block page is opened; or an error reaches the catch block (lines
\* 666-674) with no block page to close, where Promise.reject(e) leaves a
\* rejected promise behind. The awaits after line 170 touch the row only.
BlockReadRow(r) ==
  /\ script = "blocks"
  /\ ~crashed
  /\ r \in Rows
  /\ tPc[r] = "getName"
  /\ \/ /\ \E n \in BlockNames :
             IF \E k \in 1..Len(blocks) : blocks[k].name = n
               THEN /\ tPc' = [tPc EXCEPT ![r] = "done"]
                    /\ UNCHANGED <<tName, openPages>>
               ELSE \/ /\ tPc' = [tPc EXCEPT ![r] = "page"]
                       /\ tName' = [tName EXCEPT ![r] = n]
                       /\ openPages' = openPages \cup {r}
                    \/ /\ tPc' = [tPc EXCEPT ![r] = "done"]
                       /\ UNCHANGED <<tName, openPages>>
        /\ UNCHANGED <<rejected, mainPc, crashed>>
     \/ /\ tPc' = [tPc EXCEPT ![r] = "done"]
        /\ UnhandledRejection
        /\ UNCHANGED <<tName, openPages, rejected, mainPc>>
     \/ /\ BlockTaskRejects(r)
        /\ UNCHANGED openPages
  /\ UNCHANGED <<sStatic, nRows, sItems, sBlocks, sErr, sReport, browserOpen,
                 passes, sSpecial>>

\* blocks.ts, writeBlocks after blocks.push (lines 663-664): the list is
\* sorted in place and the whole file is rewritten.
PushAndWriteBlock(rec) ==
  /\ blocks' = sortByKey(Append(blocks, rec))
  /\ blocksJson' = sortByKey(Append(blocks, rec))
  /\ appended' = appended (+) SetToBag({rec})

\* The catch block of a task that has opened its block page (lines
\* 666-674): the page is closed and Promise.reject(e) leaves a rejected
\* promise behind, or close() throws and the task rejects. close() throws
\* when the connection to the page is lost: the page is gone in either case.
BlockPageCatch(r) ==
  /\ openPages' = closePage(openPages, r)
  /\ \/ /\ tPc' = [tPc EXCEPT ![r] = "done"]
        /\ tName' = [tName EXCEPT ![r] = ""]
        /\ UnhandledRejection
        /\ UNCHANGED <<rejected, mainPc>>
     \/ BlockTaskRejects(r)

\* Lines 208-674: the block page is loaded and read. The page is closed and
\* the row left without record when the page has no article (lines 214-220)
\* or the colors cannot be computed (lines 656-660); the page is closed and
\* the record pushed and written (lines 662-664); or an error reaches the
\* catch block. The promise of lines 224-237 resolves at the first tick of
\* its interval that finds a meta description other than the host's default
\* text and has no other way to settle: on a page with such a description
\* the task goes on, on a page without one it stays at that await. The
\* catch block only logs the name, which the waiting task needs no more.
BlockPageDone(r) ==
  /\ script = "blocks"
  /\ ~crashed
  /\ r \in Rows
  /\ tPc[r] = "page"
  /\ \/ /\ openPages' = closePage(openPages, r)
        /\ PushAndWriteBlock(Record(tName[r], BlockNamespacedId(tName[r])))
        /\ tPc' = [tPc EXCEPT ![r] = "done"]
        /\ tName' = [tName EXCEPT ![r] = ""]
        /\ UNCHANGED <<rejected, mainPc, crashed>>
     \/ /\ openPages' = closePage(openPages, r)
        /\ tPc' = [tPc EXCEPT ![r] = "done"]
        /\ tName' = [tName EXCEPT ![r] = ""]
        /\ UNCHANGED <<sBlocks, appended, rejected, mainPc, crashed>>
     \/ /\ tPc' = [tPc EXCEPT ![r] = "description"]
        /\ tName' = [tName EXCEPT ![r] = ""]
        /\ UNCHANGED <<openPages, sBlocks, appended, rejected, mainPc, crashed>>
     \/ /\ BlockPageCatch(r)
        /\ UNCHANGED <<sBlocks, appended>>
  /\ UNCHANGED <<sStatic, nRows, items, itemsJson, sErr, sReport, browserOpen,
                 passes, sSpecial>>

\* Lines 224-237 on a page without description: the await ends only if
\* evaluate itself throws, because the page or the connection is lost.
DescriptionWaitThrows(r) ==
  /\ script = "blocks"
  /\ ~crashed
  /\ r \in Rows
  /\ tPc[r] = "description"
  /\ BlockPageCatch(r)
  /\ UNCHANGED <<sStatic, nRows, sItems, sBlocks, sErr, sReport, browserOpen,
                 passes, sSpecial>>

\* Line 678: Promise.all resolved and the list is written once more.
BlocksDone ==
  /\ script = "blocks"
  /\ ~crashed
  /\ mainPc = "rows"
  /\ AllTasksDone
  /\ blocks' = sortByKey(blocks)
  /\ blocksJson' = sortByKey(blocks)
  /\ mainPc' = "done"
  /\ UNCHANGED <<sStatic, nRows, sTask, sItems, sErr, rejected, sReport, sBrowser,
                 passes, sSpecial, crashed>>

--------------------------------------------------------------------------
(* Functions of the scripts: texts *)

\* A text is the sequence of its characters.
Digit == {"0", "1", "2", "3", "4", "5", "6", "7", "8", "9"}
DigitValue(c) ==
  CASE c = "0" -> 0 [] c = "1" -> 1 [] c = "2" -> 2 [] c = "3" -> 3 [] c = "4" -> 4
    [] c = "5" -> 5 [] c = "6" -> 6 [] c = "7" -> 7 [] c = "8" -> 8 [] c = "9" -> 9

\* The number written by a run of digits.
RECURSIVE DigitsValue(_)
DigitsValue(ds) ==
  IF ds = <<>> THEN 0
  ELSE 10 * DigitsValue(SubSeq(ds, 1, Len(ds) - 1)) + DigitValue(ds[Len(ds)])

\* String.prototype.trim, for the space character.
RECURSIVE trim(_)
trim(t) ==
  IF t = <<>> THEN t
  ELSE IF Head(t) = " " THEN trim(Tail(t))
  ELSE IF t[Len(t)] = " " THEN trim(SubSeq(t, 1, Len(t) - 1))
  ELSE t

startsWith(t, pre) == Len(pre) <= Len(t) /\ SubSeq(t, 1, Len(pre)) = pre
endsWith(t, suf) == Len(suf) <= Len(t) /\ SubSeq(t, Len(t) - Len(suf) + 1, Len(t)) = suf
includes(t, sub) == \E i \in 1..(Len(t) - Len(sub) + 1) : SubSeq(t, i, i + Len(sub) - 1) = sub

\* The longest run of digits of t that starts at position i.
RECURSIVE DigitRun(_, _)
DigitRun(t, i) ==
  IF i <= Len(t) /\ t[i] \in Digit THEN <<t[i]>> \o DigitRun(t, i + 1) ELSE <<>>

\* text.match(/\d+/): the first run of digits, <<>> without a digit.
FirstDigits(t) ==
  IF \E i \in 1..Len(t) : t[i] \in Digit
    THEN DigitRun(t, CHOOSE i \in 1..Len(t) :
                       t[i] \in Digit /\ \A j \in 1..(i - 1) : t[j] \notin Digit)
    ELSE <<>>

\* text.match(/\((\d+)\)/): the positions of a "(" that is followed by a run
\* of digits and a ")".
ParenMatches(t) ==
  { i \in 1..Len(t) :
      /\ t[i] = "("
      /\ DigitRun(t, i + 1) # <<>>
      /\ i + Len(DigitRun(t, i + 1)) + 1 <= Len(t)
      /\ t[i + Len(DigitRun(t, i + 1)) + 1] = ")" }
FirstParenDigits(t) ==
  DigitRun(t, 1 + CHOOSE i \in ParenMatches(t) : \A j \in ParenMatches(t) : i <= j)

\* parseInt(text, 10) of a trimmed text: an optional sign and the digits that
\* follow; NotANumber without a digit there.
NotANumber == [nan |-> TRUE]
Number(n) == [nan |-> FALSE, value |-> n]
parseInt(t) ==
  LET signed == t # <<>> /\ t[1] \in {"-", "+"}
      ds == DigitRun(t, IF signed THEN 2 ELSE 1)
  IN IF ds = <<>> THEN NotANumber
     ELSE IF signed /\ t[1] = "-" THEN Number(0 - DigitsValue(ds))
     ELSE Number(DigitsValue(ds))

--------------------------------------------------------------------------
(* items.ts: getStackSize *)

Null == [null |-> TRUE]
\* The page has no Stackable row.
NoRow == <<"<", "n", "o", " ", "r", "o", "w", ">">>

\* The texts a Stackable row may hold: a beginning, digits, an end.
TextBeginnings ==
  { <<>>, <<"N", "o">>, <<"J", "E", ":", " ", "N", "o">>,
    <<"Y", "e", "s", ",", " ">>, <<"Y", "e", "s", " ", "(">>, <<"(">>, <<"-">>,
    <<" ">> }
TextEnds == { <<>>, <<")">>, <<" ", "(", "B", "E", ")">> }
TextDigits == {"0", "1", "6", "9"}
DigitTexts == UNION { [1..n -> TextDigits] : n \in 0..MaxDigits }
StackableTexts ==
  { b \o d \o e : b \in TextBeginnings, d \in DigitTexts, e \in TextEnds }

\* getStackSize: 1 for the excepted name; else what the function evaluated
\* in the page returns for the Stackable row.
getStackSize(name, rowText) ==
  LET text == trim(rowText)
  IN IF name = <<"Pufferfish">> THEN Number(1)
     ELSE IF rowText = NoRow THEN Null
     ELSE IF text = <<"N", "o">> \/ includes(text, <<"J", "E", ":", " ", "N", "o">>)
       THEN Number(1)
     ELSE IF startsWith(text, <<"Y", "e", "s", ",">>)
       THEN IF FirstDigits(text) # <<>> THEN Number(DigitsValue(FirstDigits(text)))
            ELSE Number(64)
     ELSE IF ParenMatches(text) # {} THEN Number(DigitsValue(FirstParenDigits(text)))
     ELSE IF ~parseInt(text).nan THEN parseInt(text)
     ELSE Null


--------------------------------------------------------------------------
(* items.ts: getRenewableStatus *)

\* A name is the sequence of its words. The strings of the rules are whole
\* words, and the names below hold them at word boundaries only, so that
\* startsWith, endsWith and includes on words decide as they do on characters.
RenewableTrueNames ==
  { <<"Arrow">>, <<"Spectral", "Arrow">>, <<"Bundle">>, <<"Clay">>,
    <<"Skeleton", "Skull">>, <<"Wither", "Skeleton", "Skull">>,
    <<"Zombie", "Head">>, <<"Creeper", "Head">>, <<"Grass">>, <<"Fern">>,
    <<"Leather", "Cap">>, <<"Leather", "Tunic">>, <<"Leather", "Pants">>,
    <<"Turtle", "Shell">>, <<"Firework", "Star">>, <<"Firework", "Rocket">>,
    <<"Shulker", "Shell">>, <<"Clay", "Ball">>, <<"Enchanted", "Book">>,
    <<"Music", "Disc", "(13)">>, <<"Music", "Disc", "(Cat)">>,
    <<"Music", "Disc", "(Blocks)">>, <<"Music", "Disc", "(Chirp)">>,
    <<"Music", "Disc", "(Far)">>, <<"Music", "Disc", "(Mall)">>,
    <<"Music", "Disc", "(Mellohi)">>, <<"Music", "Disc", "(Stal)">>,
    <<"Music", "Disc", "(Strad)">>, <<"Music", "Disc", "(Ward)">>,
    <<"Music", "Disc", "(11)">>, <<"Music", "Disc", "(Wait)">> }
RenewableFalseNames ==
  { <<"Dirt", "Path">>, <<"Dragon", "Head">>, <<"Player", "Head">>,
    <<"Tall", "Grass">>, <<"Large", "Fern">>, <<"Pufferfish">> }
EndsWithTrue == { <<"Shulker", "Box">> }
EndsWithFalse == { <<"Nylium">> }
ContainsFalse ==
  { <<"Infested">>, <<"Smithing", "Template">>, <<"Music", "Disc">>,
    <<"Banner", "Pattern">> }

\* The conditions of the pattern rules, in their order.
PatternCondition(k, name) ==
  CASE k = 1 -> \E e \in {<<"Slab">>, <<"Stairs">>, <<"Wall">>} : endsWith(name, e)
    [] k = 2 -> includes(name, <<"Banner", "Pattern">>)
    [] k = 3 -> \E e \in {<<"Pickaxe">>, <<"Hoe">>, <<"Axe">>, <<"Shovel">>, <<"Sword">>,
                          <<"Helmet">>, <<"Chestplate">>, <<"Leggings">>, <<"Boots">>} :
                  endsWith(name, e)
    [] k = 4 -> endsWith(name, <<"Horse", "Armor">>)
    [] k = 5 -> endsWith(name, <<"Terracotta">>)

\* The values of the pattern rules.
PatternValue(k, name) ==
  CASE k = 1 -> ~includes(name, <<"Deepslate">>)
    [] k = 2 -> ~\E e \in {<<"(Snout)">>, <<"(Thing)">>} : endsWith(name, e)
    [] k = 3 -> ~startsWith(name, <<"Netherite">>)
    [] k = 4 -> startsWith(name, <<"Leather">>)
    [] k = 5 -> name = <<"Terracotta">>

PatternRules == 1..5

\* The rules in the order in which getRenewableStatus tries them.
RenewableRules ==
  <<"renewable.true", "renewable.false", "endsWith.true", "endsWith.false",
    "contains.false", "pattern1", "pattern2", "pattern3", "pattern4", "pattern5">>

\* The condition of a rule, whatever the rules before it.
RuleMatches(rule, name) ==
  CASE rule = "renewable.true" -> name \in RenewableTrueNames
    [] rule = "renewable.false" -> name \in RenewableFalseNames
    [] rule = "endsWith.true" -> \E e \in EndsWithTrue : endsWith(name, e)
    [] rule = "endsWith.false" -> \E e \in EndsWithFalse : endsWith(name, e)
    [] rule = "contains.false" -> \E c \in ContainsFalse : includes(name, c)
    [] rule = "pattern1" -> PatternCondition(1, name)
    [] rule = "pattern2" -> PatternCondition(2, name)
    [] rule = "pattern3" -> PatternCondition(3, name)
    [] rule = "pattern4" -> PatternCondition(4, name)
    [] rule = "pattern5" -> PatternCondition(5, name)

\* The Renewable row of the page: its text, or NoRow.
RenewableTexts ==
  { NoRow, <<>>, <<"Y", "e", "s">>, <<"N", "o">>,
    <<"Y", "e", "s", " ", "(", "J", "E", ")">>, <<"P", "a", "r", "t", "l", "y">> }

Bool(b) == [null |-> FALSE, value |-> b]

\* Lines 782-794: what the function evaluated in the page returns.
RenewableOfPage(text) ==
  IF text = NoRow THEN Null
  ELSE IF startsWith(trim(text), <<"Y", "e", "s">>) THEN Bool(TRUE)
  ELSE IF startsWith(trim(text), <<"N", "o">>) THEN Bool(FALSE)
  ELSE Null

\* getRenewableStatus: the rule that returns, "page" when none does.
DecidingRule(name) ==
  IF name \in RenewableTrueNames THEN "renewable.true"
  ELSE IF name \in RenewableFalseNames THEN "renewable.false"
  ELSE IF \E e \in EndsWithTrue : endsWith(name, e) THEN "endsWith.true"
  ELSE IF \E e \in EndsWithFalse : endsWith(name, e) THEN "endsWith.false"
  ELSE IF \E c \in ContainsFalse : includes(name, c) THEN "contains.false"
  ELSE IF \E k \in PatternRules : PatternCondition(k, name)
    THEN RenewableRules[5 + CHOOSE k \in PatternRules :
                              /\ PatternCondition(k, name)
                              /\ \A j \in PatternRules : PatternCondition(j, name) => k <= j]
  ELSE "page"

getRenewableStatus(name, pageText) ==
  IF name \in RenewableTrueNames THEN Bool(TRUE)
  ELSE IF name \in RenewableFalseNames THEN Bool(FALSE)
  ELSE IF \E e \in EndsWithTrue : endsWith(name, e) THEN Bool(TRUE)
  ELSE IF \E e \in EndsWithFalse : endsWith(name, e) THEN Bool(FALSE)
  ELSE IF \E c \in ContainsFalse : includes(name, c) THEN Bool(FALSE)
  ELSE IF \E k \in PatternRules : PatternCondition(k, name)
    THEN Bool(PatternValue(CHOOSE k \in PatternRules :
                             /\ PatternCondition(k, name)
                             /\ \A j \in PatternRules : PatternCondition(j, name) => k <= j,
                           name))
  ELSE RenewableOfPage(pageText)

\* Names of items, among them every name of the two lists.
ItemNames ==
  RenewableTrueNames \cup RenewableFalseNames \cup
  { <<"White", "Shulker", "Box">>, <<"Shulker", "Box">>,
    <<"Crimson", "Nylium">>, <<"Infested", "Stone">>,
    <<"Infested", "Deepslate">>,
    <<"Netherite", "Upgrade", "Smithing", "Template">>,
    <<"Music", "Disc", "(Pigstep)">>,
    <<"Flower", "Charge", "Banner", "Pattern">>,
    <<"Banner", "Pattern", "(Snout)">>, <<"Stone", "Slab">>,
    <<"Cobbled", "Deepslate", "Slab">>, <<"Oak", "Stairs">>,
    <<"Deepslate", "Brick", "Wall">>, <<"Diamond", "Pickaxe">>,
    <<"Netherite", "Pickaxe">>, <<"Iron", "Hoe">>, <<"Wooden", "Axe">>,
    <<"Stone", "Shovel">>, <<"Netherite", "Sword">>, <<"Golden", "Helmet">>,
    <<"Iron", "Chestplate">>, <<"Netherite", "Leggings">>,
    <<"Leather", "Boots">>, <<"Leather", "Horse", "Armor">>,
    <<"Iron", "Horse", "Armor">>, <<"Terracotta">>, <<"Red", "Terracotta">>,
    <<"Stick">>, <<"Diamond">> }

--------------------------------------------------------------------------
(* items.ts: the Item records *)

\* String.prototype.toLowerCase, on the words that occur.
LowerWord(w) ==
  CASE w = "Arrow" -> "arrow" [] w = "of" -> "of" [] w = "Swiftness" -> "swiftness"
    [] w = "Bundle" -> "bundle" [] w = "Shield" -> "shield" [] w = "C418" -> "c418"
    [] w = "-" -> "-" [] w = "13" -> "13" [] w = "Map" -> "map"

\* name.toLowerCase().replace(/ /g, "_")
RECURSIVE LowerSnake(_)
LowerSnake(name) ==
  IF name = <<>> THEN ""
  ELSE IF Len(name) = 1 THEN LowerWord(name[1])
  ELSE LowerWord(name[1]) \o "_" \o LowerSnake(Tail(name))

\* The Item records hold a description as well, the text of the page's first
\* paragraph; no property here reads it.

\* An image URL that keeps the extension png whatever is asked for.
ImagePng(dir, file, ext) == [dir |-> dir, file |-> file, ext |-> "png"]

\* An image URL: the directory below https://mc.geertvandrunen.nl/_new/, the
\* name of the file and its extension. No file name here holds "png", so
\* that image.replace("png", "gif") changes the extension.
Image(dir, file, ext) == [dir |-> dir, file |-> file, ext |-> ext]

Thrown == [thrown |-> TRUE]
Returned(v) == [thrown |-> FALSE, value |-> v]

\* What getImageUrl and getGifURL find on the item page.
ImageKinds == {"png", "gif", "gifFallback", "none"}

\* getItemDetails, lines 415-475, from the row's data and what the item page
\* holds.
getItemDetails(name, namespacedId, imageKind, stackableText, renewableText) ==
  LET imageName == IF startsWith(name, <<"Banner", "Pattern">>) THEN "banner_pattern"
                   ELSE namespacedId
      image == IF imageKind = "png" THEN Image("items", namespacedId, "png")
               ELSE Image("items", imageName, "gif")
      stackSize == getStackSize(name, stackableText)
      renewable == getRenewableStatus(name, renewableText)
  IN IF imageKind = "none" THEN Thrown
     ELSE IF stackSize = Null THEN Thrown
     ELSE IF renewable = Null THEN Thrown
     ELSE Returned([name |-> name, namespacedId |-> namespacedId, image |-> image,
                    renewable |-> renewable.value, stackSize |-> stackSize.value])

\* The `stackSize` column of the table of processSpecialItems.
SpecialPageStackSizes == <<64, 1, 1, 1, 1, 1, 64, 64, 1>>

\* processSpecialItemPage, lines 908-941: the record of one item of a special
\* page, from the item's name and the kind of its image URL.
specialItemRecord(idx, name, imageKind) ==
  LET isDisc == SpecialPageTable[idx] = "Music_Disc"
      discName == LowerWord(name[Len(name)])
      namespacedId == IF isDisc THEN "music_disc_" \o discName ELSE SpecialPageIds[idx]
      imageName == IF isDisc THEN namespacedId ELSE LowerSnake(name)
      itemName == IF ~isDisc THEN name
                  ELSE IF Len(name) = 1 THEN <<"Music", "Disc", "(" \o name[1] \o ")">>
                  ELSE <<"Music", "Disc", "(" \o name[1]>>
                       \o SubSeq(name, 2, Len(name) - 1)
                       \o <<name[Len(name)] \o ")">>
  IN IF imageKind = "none" THEN Thrown
     ELSE Returned([name |-> itemName, namespacedId |-> namespacedId,
                    image |-> Image("items", imageName, IF imageKind = "gif" THEN "gif" ELSE "png"),
                    stackSize |-> SpecialPageStackSizes[idx]])

--------------------------------------------------------------------------
(* blocks.ts: the Block records *)

\* The table `types` of lines 252-603: the strings looked for in the name
\* and the attributes of the entry. A blastResistance is kept as written.
types ==
  <<[blocks |-> {"Lava", "Water", "Powder Snow"},
     attributes |-> [flammable |-> FALSE, tool |-> "null"]],
    [blocks |-> {"Sweet Berry Bush"},
     attributes |-> [flammable |-> TRUE]],
    [blocks |-> {"Sea Pickle"},
     attributes |-> [luminance |-> 6]],
    [blocks |-> {"Redstone Dust"},
     attributes |-> <<>>],
    [blocks |-> {"Redstone Torch", "Redstone Wall Torch"},
     attributes |-> [luminance |-> 7]],
    [blocks |-> {"Redstone Ore"},
     attributes |-> [luminance |-> 9]],
    [blocks |-> {"Carrots", "Potatoes"},
     attributes |-> [transparent |-> TRUE, luminance |-> 0,
               flammable |-> TRUE, tool |-> "null"]],
    [blocks |-> {"Moving Piston", "Piston Head"},
     attributes |-> <<>>],
    [blocks |-> {"Melon"},
     attributes |-> [tool |-> "Axe"]],
    [blocks |-> {"Magma Block"},
     attributes |-> [flammable |-> FALSE]],
    [blocks |-> {"Iron "},
     attributes |-> [tool |-> "Pickaxe"]],
    [blocks |-> {"Enchanting Table", "Cauldron", "Red Mushroom", "Observer",
               "Blue Ice", " Head", "Skull", "Spawner", "Cake"},
     attributes |-> [luminance |-> 0]],
    [blocks |-> {"Fletching Table"},
     attributes |-> [flammable |-> FALSE]],
    [blocks |-> {"Dead Bush"},
     attributes |-> [flammable |-> TRUE]],
    [blocks |-> {"Cobweb"},
     attributes |-> [tool |-> "Shears"]],
    [blocks |-> {"Brown Mushroom"},
     attributes |-> [luminance |-> 1]],
    [blocks |-> {"Beehive", "Bee Nest"},
     attributes |-> [flammable |-> TRUE, luminance |-> 0]],
    [blocks |-> {"Furnace", "Smoker"},
     attributes |-> [luminance |-> 13]],
    [blocks |-> {"Soul Fire"},
     attributes |-> [luminance |-> 10]],
    [blocks |-> {"Torch"},
     attributes |-> [luminance |-> 14]],
    [blocks |-> {"Candle", "Cake with"},
     attributes |-> [luminance |-> 3]],
    [blocks |-> {"Fire", "Lantern", "Redstone Lamp", "Campfire",
               "Respawn Anchor"},
     attributes |-> [luminance |-> 15]],
    [blocks |-> {"Bedrock"},
     attributes |-> [transparent |-> FALSE, flammable |-> FALSE]],
    [blocks |-> {"Weighted Pressure Plate"},
     attributes |-> [tool |-> "Pickaxe"]],
    [blocks |-> {"Bamboo Shoot"},
     attributes |-> [flammable |-> FALSE]],
    [blocks |-> {"Coral Fan", "Coral Wall Fan"},
     attributes |-> <<>>],
    [blocks |-> {"Pumpkin Stem"},
     attributes |-> [blastResistance |-> "0"]],
    [blocks |-> {"Carpet"},
     attributes |-> [flammable |-> TRUE]],
    [blocks |-> {"Shulker Box"},
     attributes |-> <<>>],
    [blocks |-> {"Dandelion", "Poppy", "Blue Orchid", "Allium",
               "Azure Bluet", "Red Tulip", "Orange Tulip", "White Tulip",
               "Pink Tulip", "Oxeye Daisy", "Cornflower",
               "Lily of the Valley", "Wither Rose", "Sunflower", "Lilac",
               "Rose Bush", "Peony"},
     attributes |-> [flammable |-> TRUE]],
    [blocks |-> {"Stairs", "Slab"},
     attributes |-> [transparent |-> TRUE]],
    [blocks |-> {"Leaves", "Glow Lichen"},
     attributes |-> [blastResistance |-> "0.2", transparent |-> TRUE,
               tool |-> "Shears"]],
    [blocks |-> {" Wood", "Log"},
     attributes |-> [blastResistance |-> "2", flammable |-> TRUE]],
    [blocks |-> {"Stem", "Hyphae"},
     attributes |-> [blastResistance |-> "2", flammable |-> FALSE]],
    [blocks |-> {"Oak", "Spruce", "Birch", "Jungle", "Acacia", "Crimson",
               "Warped"},
     attributes |-> [blastResistance |-> "3", flammable |-> TRUE,
               tool |-> "Axe"]],
    [blocks |-> {"Oak", "Spruce", "Birch", "Jungle", "Acacia"},
     attributes |-> [flammable |-> TRUE]],
    [blocks |-> {"Crimson", "Warped"},
     attributes |-> [flammable |-> FALSE]],
    [blocks |-> {"Stone ", "Cobblestone", "Sandstone", "Diorite", "Andesite",
               "Granite", "Prismarine", "Brick", "Purpur", "Quartz",
               "Blackstone", "Deepslate"},
     attributes |-> [flammable |-> FALSE, tool |-> "Pickaxe"]],
    [blocks |-> {"Quartz"},
     attributes |-> [blastResistance |-> "0.8"]],
    [blocks |-> {"Copper"},
     attributes |-> [blastResistance |-> "6", tool |-> "Pickaxe"]],
    [blocks |-> {"Small Amethyst Bud"},
     attributes |-> [luminance |-> 1]],
    [blocks |-> {"Medium Amethyst Bud"},
     attributes |-> [luminance |-> 2]],
    [blocks |-> {"Large Amethyst Bud"},
     attributes |-> [luminance |-> 4]],
    [blocks |-> {"Amethyst Cluster"},
     attributes |-> [luminance |-> 5]],
    [blocks |-> {"Cave Vines"},
     attributes |-> [luminance |-> 14]],
    [blocks |-> {"Light"},
     attributes |-> [luminance |-> 15]]>>

\* applyTypes with the luminance of every matching entry added up, instead
\* of the first one kept.
RECURSIVE applyTypesAdding(_, _, _)
applyTypesAdding(block, matched, k) ==
  IF k > Len(types) THEN block
  ELSE IF k \in matched
    THEN applyTypesAdding(
           [a \in DOMAIN block \cup DOMAIN types[k].attributes |->
              IF a \notin DOMAIN block THEN types[k].attributes[a]
              ELSE IF a = "luminance" /\ a \in DOMAIN types[k].attributes
                THEN block[a] + types[k].attributes[a]
              ELSE block[a]],
           matched, k + 1)
  ELSE applyTypesAdding(block, matched, k + 1)

\* Lines 605-614: the entries whose strings the name holds are applied in the
\* order of the table, and an attribute is set while it is undefined. The
\* defined attributes are the domain of the result.
RECURSIVE applyTypes(_, _, _)
applyTypes(block, matched, k) ==
  IF k > Len(types) THEN block
  ELSE IF k \in matched
    THEN applyTypes([a \in DOMAIN block \cup DOMAIN types[k].attributes |->
                       IF a \in DOMAIN block THEN block[a] ELSE types[k].attributes[a]],
                    matched, k + 1)
  ELSE applyTypes(block, matched, k + 1)

\* The sets of entries one name may match.
RECURSIVE SetsOfAtMost(_)
SetsOfAtMost(n) ==
  IF n = 0 THEN {{}}
  ELSE LET smaller == SetsOfAtMost(n - 1)
       IN smaller \cup { m \cup {k} : m \in smaller, k \in 1..Len(types) }
MatchSets == SetsOfAtMost(MaxMatches)

AirNames == { <<"Air">>, <<"Cave", "Air">>, <<"Void", "Air">>, <<"Moving", "Piston">> }

NoItemForm == ""

\* Rows of the blocks table: the name, the item form id of the last cell
\* (NoItemForm without one), the text of the <code> element, and the text of
\* the blast resistance cell of the block page (NoRow without the cell).
BlockRows ==
  { [name |-> <<"Stone">>, itemFormID |-> NoItemForm, code |-> "stone",
     blast |-> <<"6">>],
    [name |-> <<"Cave", "Air">>, itemFormID |-> NoItemForm, code |-> "cave_air",
     blast |-> <<"0">>],
    [name |-> <<"Beetroots">>, itemFormID |-> "beetroot_seeds", code |-> "beetroots",
     blast |-> NoRow],
    [name |-> <<"Glow", "Lichen">>, itemFormID |-> NoItemForm, code |-> "glow_lichen",
     blast |-> <<"0", ".", "2">>] }

\* Lines 172-251 and 605-619: the record of a row whose image was found.
blockRecord(row, matched) ==
  LET namespacedId == IF row.itemFormID # NoItemForm THEN row.itemFormID ELSE row.code
      imageName == IF row.name \in AirNames THEN "air" ELSE namespacedId
      attrs == applyTypes(<<>>, matched, 1)
  IN [name |-> row.name, namespacedId |-> namespacedId,
      image |-> Image("blocks", imageName, "png"),
      attributes |-> [a \in DOMAIN attrs \ {"blastResistance"} |-> attrs[a]],
      blastResistance |-> parseInt(IF row.blast = NoRow THEN <<>> ELSE trim(row.blast))]

--------------------------------------------------------------------------
(* Upload CLI: normalizePrefix *)

\* Removes one leading slash only.
stripOneLeading(t) == IF t # <<>> /\ Head(t) = "/" THEN Tail(t) ELSE t

\* prefix.replace(/^\/+/, "")
RECURSIVE stripLeading(_)
stripLeading(t) == IF t # <<>> /\ Head(t) = "/" THEN stripLeading(Tail(t)) ELSE t

\* .replace(/\/+$/, "")
RECURSIVE stripTrailing(_)
stripTrailing(t) ==
  IF t # <<>> /\ t[Len(t)] = "/" THEN stripTrailing(SubSeq(t, 1, Len(t) - 1)) ELSE t

\* normalizePrefix, on a prefix as the sequence of its characters.
normalizePrefix(prefix) ==
  IF prefix = <<>> THEN <<>>
  ELSE LET p == stripTrailing(stripLeading(prefix))
       IN IF p # <<>> THEN p \o <<"/">> ELSE <<>>

\* The values of --prefix or R2_PREFIX.
PrefixChars == {"/", "v", "1"}
RawPrefixes == UNION { [1..n -> PrefixChars] : n \in 0..MaxPrefixLen }

\* path.relative(baseDir, filePath) with "/" for the separator, for a file
\* of public/blocks and one of public/items.
RelativePaths == { <<"blocks", "/", "stone.png">>, <<"items", "/", "stick.png">> }

\* Lines 137 and 210-211: the key of a file under a prefix as given.
uploadKey(rawPrefix, rel) == normalizePrefix(rawPrefix) \o rel

--------------------------------------------------------------------------
(* Upload CLI: the env file, the arguments and the environment *)

\* A string is the sequence of its pieces: words, and the characters "=",
\* ",", " ", "#", "/" and the quotes. undefined is a value of its own.
Undefined == <<"<undefined>">>

\* a ?? b
Coalesce(a, b) == IF a # Undefined THEN a ELSE b

\* process.argv.indexOf(flag), from 1; 0 for -1.
indexOf(argv, flag) ==
  IF \E i \in DOMAIN argv : argv[i] = flag
    THEN CHOOSE i \in DOMAIN argv : argv[i] = flag /\ \A j \in 1..(i - 1) : argv[j] # flag
    ELSE 0

getArg(argv, flag) ==
  IF indexOf(argv, flag) = 0 THEN Undefined
  ELSE IF indexOf(argv, flag) + 1 > Len(argv) THEN Undefined
  ELSE argv[indexOf(argv, flag) + 1]

hasFlag(argv, flag) == \E i \in DOMAIN argv : argv[i] = flag

\* process.env[key]
envGet(env, key) == IF key \in DOMAIN env THEN env[key] ELSE Undefined

\* Lines 53-61: the value of a line of the env file, from the text after "=".
envValue(rest) ==
  LET value == trim(rest)
      quoted(q) == Len(value) >= 1 /\ value[1] = q /\ value[Len(value)] = q
      hashes == { i \in 2..Len(value) : value[i - 1] = " " /\ value[i] = "#" }
      RECURSIVE runStart(_)
      runStart(i) == IF i > 1 /\ value[i - 1] = " " THEN runStart(i - 1) ELSE i
      first == CHOOSE i \in hashes : \A j \in hashes : runStart(i) <= runStart(j)
  IN IF quoted("\"") \/ quoted("'") THEN SubSeq(value, 2, Len(value) - 1)
     ELSE IF hashes # {} THEN trim(SubSeq(value, 1, runStart(first) - 1))
     ELSE value

\* The pieces that are no word of [A-Za-z0-9_].
Punctuation == {"=", ",", " ", "#", "/", "\"", "'"}

\* A line of the env file that sets a key whatever the environment holds.
loadLineOverwrites(env, rawLine) ==
  LET line == trim(rawLine)
      eq == CHOOSE i \in 2..Len(line) :
              line[i] = "=" /\ \A j \in 2..(i - 1) : line[j] = " "
  IN IF line = <<>> \/ line[1] = "#" THEN env
     ELSE IF line[1] \in Punctuation
             \/ ~\E i \in 2..Len(line) :
                   line[i] = "=" /\ \A j \in 2..(i - 1) : line[j] = " "
       THEN env
     ELSE [k \in DOMAIN env \cup {line[1]} |->
             IF k = line[1] THEN envValue(SubSeq(line, eq + 1, Len(line))) ELSE env[k]]

\* Lines 43-63: one line of the env file. A key is one word; a key that the
\* environment holds is left as it is.
loadLine(env, rawLine) ==
  LET line == trim(rawLine)
      eq == CHOOSE i \in 2..Len(line) :
              line[i] = "=" /\ \A j \in 2..(i - 1) : line[j] = " "
  IN IF line = <<>> \/ line[1] = "#" THEN env
     ELSE IF line[1] \in Punctuation
             \/ ~\E i \in 2..Len(line) :
                   line[i] = "=" /\ \A j \in 2..(i - 1) : line[j] = " "
       THEN env
     ELSE IF envGet(env, line[1]) # Undefined THEN env
     ELSE [k \in DOMAIN env \cup {line[1]} |->
             IF k = line[1] THEN envValue(SubSeq(line, eq + 1, Len(line))) ELSE env[k]]

\* The env file is no file.
NoFile == <<<<"<no file>">>>>

\* loadEnvFileIfPresent: the environment after the lines of the file.
RECURSIVE loadEnvFileIfPresent(_, _)
loadEnvFileIfPresent(env, lines) ==
  IF lines = NoFile \/ lines = <<>> THEN env
  ELSE loadEnvFileIfPresent(loadLine(env, Head(lines)), Tail(lines))

\* Lines 115-118: .split(",").map((s) => s.trim()).filter(Boolean)
RECURSIVE trimAndFilter(_)
trimAndFilter(parts) ==
  IF parts = <<>> THEN <<>>
  ELSE IF trim(Head(parts)) = <<>> THEN trimAndFilter(Tail(parts))
  ELSE <<trim(Head(parts))>> \o trimAndFilter(Tail(parts))
includeList(value) == trimAndFilter(Split(value, ","))

Flag(name) == <<name>>

\* parseOptions, lines 115-121, 137 and 143, on the arguments and the
\* environment. The endpoint and the credentials are set in every
\* environment here, and the concurrency is the default.
parseArgvAndEnv(argv, env) ==
  LET include == Coalesce(getArg(argv, Flag("--include")),
                          Coalesce(envGet(env, "R2_INCLUDE"), <<"blocks", ",", "items">>))
      bucket == Coalesce(getArg(argv, Flag("--bucket")),
                         Coalesce(envGet(env, "R2_BUCKET"), <<>>))
      prefix == Coalesce(getArg(argv, Flag("--prefix")),
                         Coalesce(envGet(env, "R2_PREFIX"), <<>>))
  IN IF bucket = <<>> THEN Thrown
     ELSE Returned([includeDirs |-> includeList(include),
                    bucket |-> bucket,
                    prefix |-> normalizePrefix(prefix),
                    dryRun |-> hasFlag(argv, Flag("--dry-run"))
                               \/ envGet(env, "R2_DRY_RUN") = <<"1">>])

\* main, lines 171-172.
loadConfiguration(argv, env, lines) ==
  [env |-> loadEnvFileIfPresent(env, lines),
   options |-> parseArgvAndEnv(argv, loadEnvFileIfPresent(env, lines))]

\* The arguments, the environments and the env files of the runs.
ArgvPool ==
  { <<>>,
    <<Flag("--include"), <<"items">>>>,
    <<Flag("--dry-run"), Flag("--include")>>,
    <<Flag("--include"), <<" ", "items", ",", ",", "blocks", " ">>, Flag("--dry-run")>>,
    <<Flag("--bucket"), <<"other">>, Flag("--prefix"), <<"/", "v2">>>>,
    <<Flag("--prefix"), <<>>>> }
EnvOf(include, bucket, prefix, dry) ==
  [R2_INCLUDE |-> include, R2_BUCKET |-> bucket, R2_PREFIX |-> prefix, R2_DRY_RUN |-> dry]
Environments ==
  { EnvOf(i, b, p, d) : i \in {Undefined, <<>>, <<"blocks">>}, b \in {Undefined, <<"bkt">>},
                        p \in {Undefined, <<"v1">>}, d \in {Undefined, <<"1">>} }
EnvLinePool ==
  { <<"#", " ", "R2_INCLUDE", "=", "items">>,
    <<"R2_INCLUDE", "=", "items">>,
    <<" ", "R2_INCLUDE", " ", "=", " ", "\"", "items", ",", "blocks", "\"", " ">>,
    <<"R2_BUCKET", "=", "filebkt", " ", " ", "#", " ", "the", " ", "bucket">>,
    <<"R2_PREFIX", "=", "'", "/", "v3", "/", "'">>,
    <<"=", "x">> }
EnvFiles == {NoFile} \cup UNION { [1..n -> EnvLinePool] : n \in 0..MaxEnvLines }

--------------------------------------------------------------------------
(* The recipes script *)

\* A value of type string | null is Null or Str(s); a slot of a grid is one
\* of these or List(l) for an array l of them.
Str(t) == [null |-> FALSE, str |-> t]
List(l) == [list |-> l]

woodTypes ==
  <<"Oak Planks", "Spruce Planks", "Birch Planks", "Jungle Planks", "Acacia Planks",
    "Dark Oak Planks", "Crimson Planks", "Warped Planks">>
colors ==
  <<"White", "Orange", "Magenta", "Light Blue", "Yellow", "Lime", "Pink", "Gray",
    "Light Gray", "Cyan", "Purple", "Blue", "Brown", "Green", "Red", "Black">>
StrList(strings) == List([k \in DOMAIN strings |-> Str(strings[k])])
materials ==
  << [name |-> "Wooden", item |-> StrList(woodTypes)],
     [name |-> "Stone", item |-> Str("Cobblestone")],
     [name |-> "Iron", item |-> Str("Iron Ingot")],
     [name |-> "Golden", item |-> Str("Gold Ingot")],
     [name |-> "Diamond", item |-> Str("Diamond")] >>
effects ==
  <<"Splashing", "Regeneration", "Swiftness", "Fire Resistance", "Poison", "Healing",
    "Night Vision", "Weakness", "Strength", "Slowness", "Leaping", "Harming",
    "Water Breathing", "Invisibility", "Luck", "the Turtle Master", "Slow Falling">>

\* The elements of the crafting page. An output or a variant is an
\* .invslot-item: whether it has child nodes, its data-minetip-title and the
\* title of its first <a>.
NoAttr == "<no attribute>"
NoLink == "<no a>"
InvslotItem(children, minetip, link) ==
  [children |-> children, minetip |-> minetip, link |-> link]

\* elem.querySelector("a").getAttribute("title"): Thrown without an <a>.
linkTitle(elem) ==
  IF elem.link = NoLink THEN Thrown
  ELSE IF elem.link = NoAttr THEN Returned(Null)
  ELSE Returned(Str(elem.link))

\* The data-minetip-title values of the page that start with "&".
AmpersandTitles == {"&6Fancy Boat"}

\* Lines 173-177: the name of an output.
outputName(elem) ==
  IF elem.minetip # NoAttr /\ elem.minetip \notin AmpersandTitles
    THEN Returned(Str(elem.minetip))
    ELSE linkTitle(elem)

\* Lines 223-228: the title of a variant of a tile with several variants.
variantTitle(variant) ==
  IF variant.minetip # NoAttr THEN Returned(Str(variant.minetip)) ELSE linkTitle(variant)

\* Lines 194-231: the slot of one tile, for the output `index` (from 0) of
\* `totalLength` outputs.
recipeTile(tile, index, totalLength) ==
  IF Len(tile) = 0 THEN Returned(Null)
  ELSE IF Len(tile) = 1 THEN linkTitle(tile[1])
  ELSE IF Len(tile) = totalLength
    THEN LET variant == tile[index + 1]
         IN IF ~variant.children THEN Returned(Null)
            ELSE IF variant.minetip # NoAttr THEN Returned(Str(variant.minetip))
            ELSE IF variant.link # NoLink THEN linkTitle(variant)
            ELSE Thrown
  ELSE IF \E k \in DOMAIN tile : variantTitle(tile[k]).thrown THEN Thrown
  ELSE Returned(List([k \in DOMAIN tile |-> variantTitle(tile[k]).value]))

\* A check of the tiles that lets every row pass.
anyTiles(nineTiles) == TRUE

\* Line 192.
hasNineTiles(nineTiles) == Len(nineTiles) = 9

\* Lines 185-239: the recipe of one output of a row. It has an item and a
\* grid, and no other property.
rowRecipe(row, index) ==
  LET name == outputName(row.outputs[index + 1])
      tiles == [k \in DOMAIN row.tiles |->
                  recipeTile(row.tiles[k], index, Len(row.outputs))]
  IN IF name.thrown THEN Thrown
     ELSE IF ~hasNineTiles(row.tiles) THEN Thrown
     ELSE IF \E k \in DOMAIN tiles : tiles[k].thrown THEN Thrown
     ELSE Returned([item |-> name.value,
                    recipe |-> [k \in DOMAIN tiles |-> tiles[k].value]])

\* processRow, lines 162-245: the recipes of the outputs of a row.
processRow(row) ==
  LET made == [k \in DOMAIN row.outputs |-> rowRecipe(row, k - 1)]
  IN IF \E k \in DOMAIN made : made[k].thrown THEN Thrown
     ELSE Returned([k \in DOMAIN made |-> made[k].value])

\* filterRows, lines 123-160, decides on the texts of the row.
filterRows(row) == ~row.excluded

\* scrapeCraftingRecipes, lines 247-251: the recipes of the rows kept, in the
\* order of the rows. An error thrown in the page rejects the call.
RECURSIVE scrapeCraftingRecipes(_)
scrapeCraftingRecipes(rows) ==
  IF rows = <<>> THEN Returned(<<>>)
  ELSE LET rest == scrapeCraftingRecipes(Tail(rows))
           first == IF filterRows(Head(rows)) THEN processRow(Head(rows))
                    ELSE Returned(<<>>)
       IN IF first.thrown \/ rest.thrown THEN Thrown
          ELSE Returned(first.value \o rest.value)

CraftingRecipe(item, quantity, recipe, shapeless) ==
  [item |-> Str(item), quantity |-> quantity, recipe |-> recipe, shapeless |-> shapeless]

addColoredBedRecipes ==
  [c \in DOMAIN colors |->
     CraftingRecipe(colors[c] \o " Bed", 1,
                    <<Null, Null, Null,
                      Str(colors[c] \o " Wool"), Str(colors[c] \o " Wool"),
                      Str(colors[c] \o " Wool"),
                      StrList(woodTypes), StrList(woodTypes), StrList(woodTypes)>>,
                    FALSE)]

addShulkerBoxRecipes ==
  [c \in DOMAIN colors |->
     CraftingRecipe(colors[c] \o " Shulker Box", 1,
                    <<Null, Null, Null,
                      List([k \in DOMAIN colors |-> Str(colors[k] \o " Shulker Box")]),
                      Str(colors[c] \o " Dye"), Null, Null, Null, Null>>,
                    TRUE)]

\* The five tools of a material, in the order of lines 302-343.
tools(m) ==
  << [name |-> "Pickaxe",
      recipe |-> <<m, m, m, Null, Str("Stick"), Null, Null, Str("Stick"), Null>>],
     [name |-> "Sword",
      recipe |-> <<Null, m, Null, Null, m, Null, Null, Str("Stick"), Null>>],
     [name |-> "Axe",
      recipe |-> <<m, m, Null, m, Str("Stick"), Null, Null, Str("Stick"), Null>>],
     [name |-> "Shovel",
      recipe |-> <<Null, m, Null, Null, Str("Stick"), Null, Null, Str("Stick"), Null>>],
     [name |-> "Hoe",
      recipe |-> <<m, m, Null, Null, Str("Stick"), Null, Null, Str("Stick"), Null>>] >>

addToolRecipes ==
  Flat([m \in DOMAIN materials |->
          [t \in 1..5 |->
             CraftingRecipe(materials[m].name \o " " \o tools(materials[m].item)[t].name, 1,
                            tools(materials[m].item)[t].recipe, FALSE)]])

dyes == [c \in DOMAIN colors |-> Str(colors[c] \o " Dye")]

addFireworkRecipes ==
  << CraftingRecipe("Firework Star", 1,
       <<Str("Gunpowder"), List(dyes),
         List(<<Null>> \o dyes \o
              <<Str("Skeleton Skull"), Str("Wither Skeleton Skull"), Str("Zombie Head"),
                Str("Player Head"), Str("Creeper Head"), Str("Dragon Head"),
                Str("Gold Nugget"), Str("Feather"), Str("Fire Charge")>>),
         List(<<Null>> \o dyes \o <<Str("Glowstone")>>),
         List(<<Null>> \o dyes \o <<Str("Diamond")>>),
         List(<<Null>> \o dyes), List(<<Null>> \o dyes),
         List(<<Null>> \o dyes), List(<<Null>> \o dyes)>>,
       TRUE),
     CraftingRecipe("Firework Star", 1,
       <<Null, Null, Null, Str("Firework Star"), List(dyes), Null, Null, Null, Null>>,
       TRUE),
     CraftingRecipe("Firework Rocket", 3,
       <<Null, Null, Null, Str("Paper"), Str("Gunpowder"),
         List(<<Null, Str("Gunpowder")>>), List(<<Null, Str("Gunpowder")>>), Null, Null>>,
       TRUE),
     CraftingRecipe("Firework Rocket", 3,
       <<Null, Null, Null, Str("Firework Star"), Str("Paper"), Str("Gunpowder"),
         List(<<Null, Str("Gunpowder")>>), List(<<Null, Str("Gunpowder")>>), Null>>,
       TRUE) >>

addTippedArrowRecipes ==
  [e \in DOMAIN effects |->
     LET potion == IF effects[e] = "Splashing" THEN "Lingering Water Bottle"
                   ELSE "Lingering Potion of " \o effects[e]
     IN CraftingRecipe("Arrow of " \o effects[e], 8,
                       <<Str("Arrow"), Str("Arrow"), Str("Arrow"), Str("Arrow"),
                         Str(potion),
                         Str("Arrow"), Str("Arrow"), Str("Arrow"), Str("Arrow")>>,
                       FALSE)]

addWrittenBookRecipes ==
  [i \in 1..8 |->
     CraftingRecipe("Written Book", i,
                    <<Str("Written Book")>> \o [k \in 1..i |-> Str("Book and Quill")]
                      \o [k \in 1..(8 - i) |-> Null],
                    TRUE)]

\* Lines 74-90: the recipes scraped, then those of the helpers in the order
\* of the calls. sortByKey(recipes, "item") reorders the list; the file is
\* kept as the bag of the records that JSON.stringify writes.
recipesJson(rows) ==
  LET scraped == scrapeCraftingRecipes(rows)
  IN IF scraped.thrown THEN Thrown
     ELSE Returned(BagOfSeq(scraped.value \o addColoredBedRecipes \o addShulkerBoxRecipes
                            \o addToolRecipes \o addFireworkRecipes
                            \o addTippedArrowRecipes \o addWrittenBookRecipes))

\* The rows of the crafting page.
Variants ==
  [ stick |-> InvslotItem(TRUE, NoAttr, "Stick"),
    oak |-> InvslotItem(TRUE, "Oak Planks", "Oak Planks"),
    spruce |-> InvslotItem(TRUE, "Spruce Planks", NoLink),
    empty |-> InvslotItem(FALSE, NoAttr, NoLink),
    image |-> InvslotItem(TRUE, NoAttr, NoLink),
    untitled |-> InvslotItem(TRUE, NoAttr, NoAttr) ]
TilePool ==
  { <<>>, <<Variants.stick>>, <<Variants.image>>, <<Variants.untitled>>,
    <<Variants.oak, Variants.spruce>>, <<Variants.empty, Variants.stick>>,
    <<Variants.oak, Variants.spruce, Variants.stick>> }
OutputPool ==
  { <<InvslotItem(TRUE, "Stick", "Stick")>>,
    <<InvslotItem(TRUE, "&6Fancy Boat", "Oak Boat"),
      InvslotItem(TRUE, NoAttr, "Spruce Boat")>> }
TileCounts == {8, 9}
CraftingRows ==
  { [excluded |-> x, outputs |-> o,
     tiles |-> [k \in 1..n |-> IF k % 2 = 1 THEN t1 ELSE t2]] :
      x \in BOOLEAN, o \in OutputPool, n \in TileCounts, t1 \in TilePool, t2 \in TilePool }
CraftingPages == {<<>>} \cup { <<r>> : r \in CraftingRows }

--------------------------------------------------------------------------
(* One call of a function *)

NotReturned == [done |-> FALSE]
Done(v) == [done |-> TRUE, value |-> v]

SpecialItemWords ==
  { <<"Arrow", "of", "Swiftness">>, <<"Bundle">>, <<"Shield">>, <<"Map">>,
    <<"C418", "-", "13">> }

DetailRows ==
  { [name |-> <<"Stick">>, namespacedId |-> "stick"],
    [name |-> <<"Pufferfish">>, namespacedId |-> "pufferfish"],
    [name |-> <<"Banner", "Pattern", "(Snout)">>,
     namespacedId |-> "piglin_banner_pattern"] }

RenewableCalls ==
  { [fn |-> "getRenewableStatus", name |-> n, text |-> t] :
      n \in ItemNames, t \in RenewableTexts }
DetailCalls ==
  { [fn |-> "getItemDetails", row |-> r, imageKind |-> k, stackable |-> st,
     renewable |-> rt] :
      r \in DetailRows, k \in ImageKinds, st \in StackableTexts \cup {NoRow},
      rt \in {NoRow, <<"Y", "e", "s">>} }
SpecialCalls ==
  { [fn |-> "specialItem", page |-> i, name |-> n, imageKind |-> k] :
      i \in 1..Len(SpecialPageTable), n \in SpecialItemWords,
      k \in {"png", "gif", "none"} }
KeyCalls ==
  { [fn |-> "uploadKey", prefix |-> p, rel |-> r] : p \in RawPrefixes, r \in RelativePaths }
RecipesCalls == { [fn |-> "recipes", rows |-> rs] : rs \in CraftingPages }
ConfigCalls ==
  { [fn |-> "loadConfiguration", argv |-> a, env |-> e, envFile |-> f] :
      a \in ArgvPool, e \in Environments, f \in EnvFiles }
BlockCalls ==
  { [fn |-> "blockRecord", row |-> r, matched |-> m] : r \in BlockRows, m \in MatchSets }

CallStart(c) ==
  /\ call = c
  /\ ret = NotReturned

GetRenewableStatusReturns ==
  /\ call.fn = "getRenewableStatus"
  /\ ret = NotReturned
  /\ ret' = Done(getRenewableStatus(call.name, call.text))
  /\ UNCHANGED call

GetItemDetailsReturns ==
  /\ call.fn = "getItemDetails"
  /\ ret = NotReturned
  /\ ret' = Done(getItemDetails(call.row.name, call.row.namespacedId, call.imageKind,
                                call.stackable, call.renewable))
  /\ UNCHANGED call

SpecialItemReturns ==
  /\ call.fn = "specialItem"
  /\ ret = NotReturned
  /\ ret' = Done(specialItemRecord(call.page, call.name, call.imageKind))
  /\ UNCHANGED call

UploadKeyReturns ==
  /\ call.fn = "uploadKey"
  /\ ret = NotReturned
  /\ ret' = Done([prefix |-> normalizePrefix(call.prefix),
                  key |-> uploadKey(call.prefix, call.rel)])
  /\ UNCHANGED call

LoadConfigurationReturns ==
  /\ call.fn = "loadConfiguration"
  /\ ret = NotReturned
  /\ ret' = Done(loadConfiguration(call.argv, call.env, call.envFile))
  /\ UNCHANGED call

RecipesScriptReturns ==
  /\ call.fn = "recipes"
  /\ ret = NotReturned
  /\ ret' = Done(recipesJson(call.rows))
  /\ UNCHANGED call

BlockRecordReturns ==
  /\ call.fn = "blockRecord"
  /\ ret = NotReturned
  /\ ret' = Done(Returned(blockRecord(call.row, call.matched)))
  /\ UNCHANGED call


--------------------------------------------------------------------------
(* Specifications *)

UploadIdle == UploadStart(CHOOSE in \in Inputs : TRUE)
CollectIdle == CollectStart(CHOOSE t \in Trees : TRUE, <<Blocks>>, <<>>)
ScrapeIdle == ScrapeStart("items", <<>>, "throw")
CallsIdle == CallStart([fn |-> "none"])

UploadInit ==
  /\ \E in \in Inputs : UploadStart(in)
  /\ CollectIdle
  /\ ScrapeIdle
  /\ CallsIdle
CollectInit ==
  /\ UploadIdle
  /\ ScrapeIdle
  /\ CallsIdle
  /\ \E t \in Trees, inc \in IncludeLists, pre \in NormalizedPrefixes :
       CollectStart(t, inc, pre)

UploadNext ==
  \/ ParseOptions /\ UNCHANGED <<cvars, svars, fvars>>
  \/ CollectFiles /\ UNCHANGED <<cvars, svars, fvars>>
  \/ \E i \in 1..(MaxFiles + 1) : StartTask(i) /\ UNCHANGED <<cvars, svars, fvars>>
  \/ \E i \in 1..(MaxFiles + 1) : HeadReturns(i) /\ UNCHANGED <<cvars, svars, fvars>>
  \/ \E i \in 1..(MaxFiles + 1) : PutReturns(i) /\ UNCHANGED <<cvars, svars, fvars>>
  \/ Finish /\ UNCHANGED <<cvars, svars, fvars>>

CollectNext ==
  \/ CheckRoots /\ UNCHANGED <<uvars, svars, fvars>>
  \/ CollectRoot /\ UNCHANGED <<uvars, svars, fvars>>
  \/ SortFiles /\ UNCHANGED <<uvars, svars, fvars>>
  \/ FormKeys /\ UNCHANGED <<uvars, svars, fvars>>

ScrapeInit ==
  /\ UploadIdle
  /\ CollectIdle
  /\ CallsIdle
  /\ \/ \E list \in InitialLists : ScrapeStart("items", list, "throw")
     \/ \E list \in InitialLists, mode \in {"throw", "warn"} :
          ScrapeStart("blocks", list, mode)

ScrapeNext ==
  \/ OpenDataPage /\ UNCHANGED <<uvars, cvars, fvars>>
  \/ \E r \in 1..(MaxRows + 1) : StartItemTask(r) /\ UNCHANGED <<uvars, cvars, fvars>>
  \/ \E r \in 1..(MaxRows + 1) : GetItemName(r) /\ UNCHANGED <<uvars, cvars, fvars>>
  \/ \E r \in 1..(MaxRows + 1) : OpenItemPage(r) /\ UNCHANGED <<uvars, cvars, fvars>>
  \/ \E r \in 1..(MaxRows + 1) : ItemPageDone(r) /\ UNCHANGED <<uvars, cvars, fvars>>
  \/ RegularDone /\ UNCHANGED <<uvars, cvars, fvars>>
  \/ SpecialNewPage /\ UNCHANGED <<uvars, cvars, fvars>>
  \/ SpecialLoad /\ UNCHANGED <<uvars, cvars, fvars>>
  \/ SpecialItem /\ UNCHANGED <<uvars, cvars, fvars>>
  \/ SpecialClose /\ UNCHANGED <<uvars, cvars, fvars>>
  \/ BrowserClosed /\ UNCHANGED <<uvars, cvars, fvars>>
  \/ BlocksOpenDataPage /\ UNCHANGED <<uvars, cvars, fvars>>
  \/ \E r \in 1..(MaxBlockRows + 1) : StartBlockTask(r) /\ UNCHANGED <<uvars, cvars, fvars>>
  \/ \E r \in 1..(MaxBlockRows + 1) : BlockReadRow(r) /\ UNCHANGED <<uvars, cvars, fvars>>
  \/ \E r \in 1..(MaxBlockRows + 1) : BlockPageDone(r) /\ UNCHANGED <<uvars, cvars, fvars>>
  \/ \E r \in 1..(MaxBlockRows + 1) : DescriptionWaitThrows(r) /\ UNCHANGED <<uvars, cvars, fvars>>
  \/ BlocksDone /\ UNCHANGED <<uvars, cvars, fvars>>

CallsInit ==
  /\ UploadIdle
  /\ CollectIdle
  /\ ScrapeIdle
  /\ \E c \in RenewableCalls \cup DetailCalls \cup SpecialCalls \cup BlockCalls
                \cup KeyCalls \cup RecipesCalls \cup ConfigCalls :
       CallStart(c)

CallsNext ==
  \/ GetRenewableStatusReturns /\ UNCHANGED <<uvars, cvars, svars>>
  \/ GetItemDetailsReturns /\ UNCHANGED <<uvars, cvars, svars>>
  \/ SpecialItemReturns /\ UNCHANGED <<uvars, cvars, svars>>
  \/ BlockRecordReturns /\ UNCHANGED <<uvars, cvars, svars>>
  \/ UploadKeyReturns /\ UNCHANGED <<uvars, cvars, svars>>
  \/ RecipesScriptReturns /\ UNCHANGED <<uvars, cvars, svars>>
  \/ LoadConfigurationReturns /\ UNCHANGED <<uvars, cvars, svars>>

SpecUpload == UploadInit /\ [][UploadNext]_vars
SpecCollect == CollectInit /\ [][CollectNext]_vars
SpecScrape == ScrapeInit /\ [][ScrapeNext]_vars
SpecCalls == CallsInit /\ [][CallsNext]_vars

\* The blocks script when every operation a task awaits returns or throws
\* in the end and p-limit starts a queued task once a place is free. The
\* promise of the description wait is no such operation: nothing in the code
\* bounds it, so a throw of evaluate on a page without description is
\* possible and not required.
BlocksFairness ==
  /\ WF_vars(BlocksOpenDataPage /\ UNCHANGED <<uvars, cvars, fvars>>)
  /\ \A r \in 1..MaxBlockRows :
       /\ WF_vars(StartBlockTask(r) /\ UNCHANGED <<uvars, cvars, fvars>>)
       /\ WF_vars(BlockReadRow(r) /\ UNCHANGED <<uvars, cvars, fvars>>)
       /\ WF_vars(BlockPageDone(r) /\ UNCHANGED <<uvars, cvars, fvars>>)
  /\ WF_vars(BlocksDone /\ UNCHANGED <<uvars, cvars, fvars>>)

SpecScrapeFair == ScrapeInit /\ [][ScrapeNext]_vars /\ BlocksFairness

--------------------------------------------------------------------------
(* Upload CLI: properties *)

\* The files counted as uploaded, skipped and failed, from what happened to
\* each file's requests.
UploadedFiles ==
  { i \in Indices : putResult[i] = Ok \/ (options.dryRun /\ taskPc[i] = "done") }
SkippedFiles == { i \in Indices : headResult[i] = Ok }
FailedFiles == { failed[k].task : k \in 1..Len(failed) }
RanToEnd == uPc = "done" /\ summary.kind # "error"

\* C3: a failed upload does not stop the run. When main ends after the tasks,
\* every collected file's task has run to its end and, outside dry-run, has
\* sent a request; the failure report is made only after all tasks finished;
\* and every file is counted exactly once as uploaded, skipped or failed.
C3_EveryFileAttemptedAndCountedOnce ==
  /\ RanToEnd =>
       /\ AllDone
       /\ ~options.dryRun => \A i \in Indices : headSent[i] + putSent[i] >= 1
       /\ uploaded = Cardinality(UploadedFiles)
       /\ skipped = Cardinality(SkippedFiles)
       /\ Len(failed) = Cardinality(FailedFiles)
       /\ UploadedFiles \cup SkippedFiles \cup FailedFiles = Indices
       /\ UploadedFiles \cap SkippedFiles = {}
       /\ UploadedFiles \cap FailedFiles = {}
       /\ SkippedFiles \cap FailedFiles = {}
  /\ summary.kind = "failed" => AllDone /\ summary.count = Len(failed)
  /\ uPc = "tasks" => exitCode = 0 /\ summary = NoSummary

C3_Witness ==
  /\ RanToEnd
  /\ \E i, j \in Indices :
       /\ i < j
       /\ i \in FailedFiles
       /\ putResult[j] = Ok

\* C4 as stated: the exit code is 1 exactly when a file failed to upload.
C4_ExitCodeOnlyOnFailedUpload ==
  uPc = "done" => (exitCode = 1 <=> Len(failed) > 0)

\* C4, amended: the exit code is 1 exactly when a file failed to upload or
\* main threw before the uploads (parseOptions, the directory check or
\* collectFiles), and 0 in every other case.
C4_ExitCode ==
  uPc = "done" =>
    /\ exitCode \in {0, 1}
    /\ exitCode = 1 <=>
         \/ Len(failed) > 0
         \/ parseOptionsThrows(input)
         \/ input.fsFault # "none"

C4_Witness ==
  /\ uPc = "done"
  /\ exitCode = 1
  /\ Len(failed) > 0
  /\ uploaded > 0

\* C5: with skip-existing, a file whose existence check succeeded is never sent
\* in a PutObject request, and is counted in `skipped` and not in `uploaded`; a
\* PutObject is sent only after a not-found answer.
C5_ExistingKeyNeverPut ==
  (options.skipExisting /\ ~options.dryRun) =>
    /\ \A i \in Indices :
         /\ headResult[i] = Ok => putSent[i] = 0 /\ putResult[i] = NoResult
         /\ putSent[i] > 0 => headResult[i] \in MissingErrors
    /\ uPc = "done" =>
         /\ skipped = Cardinality(SkippedFiles)
         /\ uploaded = Cardinality({ i \in Indices : putResult[i] = Ok })

C5_Witness ==
  /\ uPc = "done"
  /\ options.skipExisting
  /\ \E i, j \in Indices : headResult[i] = Ok /\ putResult[j] = Ok

\* C6: dry-run sends no HeadObject and no PutObject, also with skip-existing,
\* and reports the number of collected files, which is the number of files a
\* run without dry-run attempts.
C6_DryRunNoNetwork ==
  /\ options.dryRun =>
       /\ \A i \in Indices : headSent[i] = 0 /\ putSent[i] = 0
       /\ RanToEnd => summary = [kind |-> "dry-run", count |-> Len(files)]
  /\ (RanToEnd /\ ~options.dryRun) =>
       Cardinality({ i \in Indices : headSent[i] + putSent[i] >= 1 }) = Len(files)

C6_Witness ==
  /\ uPc = "done"
  /\ options.dryRun
  /\ options.skipExisting
  /\ Len(files) >= 2
  /\ summary.count = Len(files)

FailedEntryOf(i) == CHOOSE e \in { failed[k] : k \in 1..Len(failed) } : e.task = i

\* C7 as stated: after a not-found answer of the existence check the file is
\* uploaded and is not on the failed list.
C7_NotFoundThenUploaded ==
  \A i \in Indices :
    (headResult[i] \in MissingErrors /\ taskPc[i] = "done") =>
       putResult[i] = Ok /\ i \notin FailedFiles

\* C7, amended: a not-found answer of the existence check (status 404 or a
\* not-found error name) is not an error: the PutObject is sent, and the file
\* is on the failed list only when that PutObject failed; dry-run fails no file.
C7_NotFoundIsNotAnError ==
  /\ \A i \in Indices :
       (headResult[i] # NoResult /\ headResult[i] # Ok /\ isNotFoundError(headResult[i])) =>
          /\ putSent[i] = 1
          /\ taskPc[i] = "done" =>
               /\ putResult[i] = Ok => i \in UploadedFiles /\ i \notin FailedFiles
               /\ i \in FailedFiles => FailedEntryOf(i).error = putResult[i]
                                        /\ putResult[i] \in PutErrors
  /\ \A i \in Indices :
       (headResult[i] \in MissingErrors) => isNotFoundError(headResult[i])
  /\ options.dryRun => failed = <<>>

C7_Witness ==
  /\ uPc = "done"
  /\ \E i, j \in Indices :
       /\ headResult[i] = NoSuchKey /\ putResult[i] = Ok
       /\ headResult[j] = NotFound404 /\ putResult[j] = Ok

--------------------------------------------------------------------------
(* Upload CLI: properties of the collected keys *)

IncludedRoots == { includeDirs[k] : k \in 1..Len(includeDirs) }
RegularFiles == { q \in DOMAIN tree : tree[q] = "file" /\ q[1] \in IncludedRoots }
\* The key the file at path q is to have: the prefix, then the names from
\* publicDir down to the file, separated by "/".
ExpectedKey(q) == cPrefix \o Join(q, Slash)
Occurrences(key) == Cardinality({ k \in 1..Len(cKeys) : cKeys[k] = key })
TimesIncluded(root) == Cardinality({ k \in 1..Len(includeDirs) : includeDirs[k] = root })
\* A name below the upload root begins with ".".
Hidden(q) == \E k \in 2..Len(q) : startsWithDot(q[k])

\* C8 as stated: every regular file under an included subdirectory has its key
\* (prefix + POSIX path relative to publicDir) exactly once among the keys.
C8_EveryRegularFileOnce ==
  cPc = "done" => \A q \in RegularFiles : Occurrences(ExpectedKey(q)) = 1

\* C8, amended: a regular file under an included subdirectory has its key
\* (prefix + POSIX path relative to publicDir) among the keys once for each time
\* the include list names its subdirectory, unless its name or the name of a
\* directory between it and the subdirectory begins with ".": then it has no
\* key. There is no other key.
C8_KeysOfCollectedFiles ==
  cPc = "done" =>
    /\ \A q \in RegularFiles :
         Occurrences(ExpectedKey(q)) = IF Hidden(q) THEN 0 ELSE TimesIncluded(q[1])
    /\ \A k \in 1..Len(cKeys) : \E q \in RegularFiles : cKeys[k] = ExpectedKey(q)
    /\ \A k \in 1..(Len(cFiles) - 1) : ~StrLess(cFiles[k + 1], cFiles[k])

C8_Witness ==
  /\ cPc = "done"
  /\ cPrefix # <<>>
  /\ TimesIncluded(Blocks) = 1
  /\ \E q \in RegularFiles : Len(q) = 3 /\ ~Hidden(q) /\ Occurrences(ExpectedKey(q)) = 1
  /\ \E q \in RegularFiles : Hidden(q)

--------------------------------------------------------------------------
(* Scraping scripts: properties *)

PageErrorNames == { PageErrorName(SpecialPageTable[k]) : k \in 1..Len(SpecialPageTable) }
\* The items of a written report: its entries other than the page errors.
ReportedItems(report) ==
  { <<report[i].category, report[i].name>> :
      i \in { k \in 1..Len(report) : report[k].name \notin PageErrorNames } }
ReportedNames(txt) == { txt[i] : i \in 1..Len(txt) }
ItemPages == openPages \ {SpecialPage}
TheFile == IF script = "items" THEN itemsJson ELSE blocksJson

\* C1: a failure inside one item's task does not abort the batch. In the
\* items script a run that entered the regular pass writes its report and
\* closes the browser only after every row's task has ended and the special
\* pass has run; in the blocks script the process does not end while a row's
\* task has not ended.
C1_FailureDoesNotAbortBatch ==
  /\ (script = "items" /\ mainPc \in {"closing", "done"} /\ "regular" \in passes) =>
       (AllTasksDone /\ "special" \in passes)
  /\ (script = "blocks" /\ crashed) => AllTasksDone

\* C2: at the end of a run of the items script every item whose processing
\* failed is in the JSON report with at least one error and in the text list,
\* and every item of the report is one whose processing failed.
C2_ReportHoldsExactlyFailedItems ==
  (script = "items" /\ mainPc = "done" /\ AllTasksDone) =>
    /\ \A key \in failedItems :
         /\ \E i \in 1..Len(reportJson) :
              /\ reportJson[i].category = key[1]
              /\ reportJson[i].name = key[2]
              /\ reportJson[i].errors >= 1
         /\ key[2] \in ReportedNames(reportTxt)
    /\ ReportedItems(reportJson) \subseteq failedItems

\* C9: in every state of a run the output file holds the in-memory list as it
\* is after the last append, which is the records loaded at the start plus
\* every record appended so far: no append is lost, and a run that stops
\* early leaves the file with the appends made until then.
C9_FileHoldsLoadedPlusAppended ==
  /\ itemsJson = items
  /\ blocksJson = blocks
  /\ BagOfSeq(TheFile) = BagOfSeq(loaded) (+) appended

C9_Witness ==
  /\ script = "items"
  /\ loaded # <<>>
  /\ BagCardinality(appended) >= 2
  /\ \E r \in Rows : tPc[r] = "itemPage"
  /\ \E r \in Rows : tPc[r] = "queued"
  /\ BagOfSeq(itemsJson) = BagOfSeq(loaded) (+) appended

\* C9, blocks script: two appends made, the process ended by an unhandled
\* rejection with tasks in progress, and the file holds both appends.
C9_PartialRunOfBlocks ==
  /\ script = "blocks"
  /\ crashed
  /\ BagCardinality(appended) >= 2
  /\ InProgress # {}
  /\ BagOfSeq(blocksJson) = BagOfSeq(loaded) (+) appended

\* C10: the number of tasks in progress, and with it the number of per-item
\* pages open, is at most 3 in the items script and at most 4 in the blocks
\* script.
C10_TasksAndPagesWithinLimit ==
  /\ script = "items" =>
       Cardinality(InProgress) <= 3 /\ Cardinality(ItemPages) <= 3
  /\ script = "blocks" =>
       Cardinality(InProgress) <= 4 /\ Cardinality(ItemPages) <= 4
  /\ ItemPages \subseteq InProgress

C10_Witness ==
  /\ script = "blocks"
  /\ Cardinality(InProgress) = 4
  /\ Cardinality(ItemPages) = 4
  /\ \E r \in Rows : tPc[r] = "queued"

\* C10, items script: three tasks in progress with their pages open and a
\* row waiting.
C10_ItemsAtLimit ==
  /\ script = "items"
  /\ Cardinality(InProgress) = 3
  /\ Cardinality(ItemPages) = 3
  /\ \E r \in Rows : tPc[r] = "queued"

NamespacedIds(list) == { list[k].namespacedId : k \in 1..Len(list) }

\* C11: in the items list and in the blocks list no two records have the
\* same namespacedId.
C11_NamespacedIdUnique ==
  /\ Cardinality(NamespacedIds(items)) = Len(items)
  /\ Cardinality(NamespacedIds(blocks)) = Len(blocks)

\* C11: a run of the items script that ends after both passes with a record
\* of a regular item and a record of a special item under one namespacedId.
C11_RegularAndSpecialShareId ==
  /\ script = "items"
  /\ mainPc = "done"
  /\ \E i, j \in 1..Len(items) :
       /\ items[i].name = "B"
       /\ items[j].name = "S"
       /\ items[i].namespacedId = items[j].namespacedId

--------------------------------------------------------------------------
(* No retries *)

\* The stages of a row's task of the items script, in their order.
StageRank(pc) ==
  CASE pc = "queued" -> 0 [] pc = "getItemName" -> 1 [] pc = "getNamespacedId" -> 2
    [] pc = "itemPage" -> 3 [] pc = "done" -> 4

\* C19: nothing is retried. A row of the data-values table goes through its
\* stages once: its page is opened in one step only, and once the row is
\* done, by success or by failure, it stays done and no page is opened for
\* it. A special page is opened once, in the order of the table, and every
\* item found on it is taken from the queue once.
C19_NoRetry ==
  [][ script = "items" =>
        /\ \A r \in DOMAIN tPc \cap DOMAIN tPc' :
             /\ StageRank(tPc'[r]) >= StageRank(tPc[r])
             /\ (r \in openPages' /\ r \notin openPages) =>
                  (tPc[r] = "getNamespacedId" /\ tPc'[r] = "itemPage")
             /\ tPc[r] = "done" => (tPc'[r] = "done" /\ r \notin openPages')
        /\ DOMAIN tPc # {} => DOMAIN tPc' = DOMAIN tPc
        /\ spIdx' \in {spIdx, spIdx + 1}
        /\ (SpecialPage \in openPages' /\ SpecialPage \notin openPages) =>
             (spPc = "newPage" /\ spPc' = "load")
        /\ (spPc' = "newPage" /\ spPc # "newPage") => spIdx' = spIdx + 1
        /\ spQueue' # spQueue =>
             \/ spPc = "load" /\ spQueue = <<>>
             \/ spPc = "items" /\ spQueue # <<>> /\ spQueue' = Tail(spQueue)
    ]_vars

\* The end of a run of the items script in which a regular item and a
\* special item failed and a record was appended.
C19_Witness ==
  /\ script = "items"
  /\ mainPc = "done"
  /\ AllTasksDone
  /\ \E k \in failedItems : k[1] = "regular"
  /\ \E k \in failedItems : k[1] = "special"
  /\ appended # EmptyBag

--------------------------------------------------------------------------
(* Properties of the records *)

Records == {"getItemDetails", "specialItem", "blockRecord"}
RecordReturned == call.fn \in Records /\ ret # NotReturned /\ ~ret.value.thrown
TheRecord == ret.value.value

\* C12: every Item or Block record has a stackSize, an integer of 1..64,
\* whatever the text of the Stackable row of the page.
C12_StackSizeWithinRange ==
  RecordReturned =>
    /\ "stackSize" \in DOMAIN TheRecord
    /\ TheRecord.stackSize \in 1..64

\* The same for the records of getItemDetails alone.
C12_ItemStackSizeWithinRange ==
  (RecordReturned /\ call.fn = "getItemDetails") => TheRecord.stackSize \in 1..64

\* C13: a Block record with a defined luminance has a luminance of 0..15,
\* whatever entries of the types table the block's name matches.
C13_LuminanceWithinRange ==
  (RecordReturned /\ call.fn = "blockRecord"
     /\ "luminance" \in DOMAIN TheRecord.attributes) =>
    TheRecord.attributes.luminance \in 0..15

\* A record whose name matches two entries that both give a luminance: it
\* has the luminance of the first.
C13_Witness ==
  /\ RecordReturned
  /\ call.fn = "blockRecord"
  /\ \E i, j \in call.matched :
       /\ i < j
       /\ "luminance" \in DOMAIN types[i].attributes
       /\ "luminance" \in DOMAIN types[j].attributes
       /\ types[i].attributes.luminance # types[j].attributes.luminance
       /\ TheRecord.attributes.luminance = types[i].attributes.luminance

\* C17 as stated: the file of the image URL of every Item record is
\* <namespacedId>.png or <namespacedId>.gif and that of every Block record is
\* <namespacedId>.png, for the namespacedId of the same record.
C17_ImageNamedAfterNamespacedId ==
  RecordReturned =>
    /\ TheRecord.image.file = TheRecord.namespacedId
    /\ TheRecord.image.ext \in (IF call.fn = "blockRecord" THEN {"png"} ELSE {"png", "gif"})

\* C17: the file of the image URL is <namespacedId>.png for a Block record,
\* air.png for the four air blocks; <namespacedId>.png or .gif for the Item
\* record of a data-values row, banner_pattern.gif for a name that starts
\* with "Banner Pattern" and has a gif; for an item of a special page the
\* item's name in lower case with "_" for spaces, as .png or .gif, and
\* <namespacedId> for a music disc.
C17_ImageFileName ==
  RecordReturned =>
    /\ TheRecord.image.dir = IF call.fn = "blockRecord" THEN "blocks" ELSE "items"
    /\ TheRecord.image.ext \in (IF call.fn = "blockRecord" THEN {"png"} ELSE {"png", "gif"})
    /\ call.fn = "blockRecord" =>
         TheRecord.image.file = IF TheRecord.name \in AirNames THEN "air"
                                ELSE TheRecord.namespacedId
    /\ call.fn = "getItemDetails" =>
         TheRecord.image.file =
           IF startsWith(TheRecord.name, <<"Banner", "Pattern">>)
              /\ TheRecord.image.ext = "gif"
             THEN "banner_pattern" ELSE TheRecord.namespacedId
    /\ call.fn = "specialItem" =>
         TheRecord.image.file =
           IF SpecialPageTable[call.page] = "Music_Disc" THEN TheRecord.namespacedId
           ELSE LowerSnake(call.name)

\* An item of a special page whose image is not named after its namespacedId.
C17_Witness ==
  /\ RecordReturned
  /\ call.fn = "specialItem"
  /\ TheRecord.namespacedId = "tipped_arrow"
  /\ TheRecord.image = Image("items", "arrow_of_swiftness", "png")

\* The other records that are not named after their namespacedId.
C17_AirBlock ==
  /\ RecordReturned
  /\ call.fn = "blockRecord"
  /\ TheRecord.namespacedId = "cave_air"
  /\ TheRecord.image.file = "air"
C17_BannerPatternGif ==
  /\ RecordReturned
  /\ call.fn = "getItemDetails"
  /\ TheRecord.namespacedId = "piglin_banner_pattern"
  /\ TheRecord.image = Image("items", "banner_pattern", "gif")

--------------------------------------------------------------------------
(* Properties of recipes.json *)

RecipesWritten == call.fn = "recipes" /\ ret # NotReturned /\ ~ret.value.thrown
WrittenRecipes == BagToSet(ret.value.value)
IsScraped(r) == "quantity" \notin DOMAIN r

IsStr(v) == DOMAIN v = {"null", "str"}
IsList(v) == DOMAIN v = {"list"}

\* C14: every recipe of recipes.json, scraped or made by one of the
\* add...Recipes helpers, has a grid of exactly 9 slots.
C14_GridOfNineSlots ==
  RecipesWritten => \A r \in WrittenRecipes : Len(r.recipe) = 9

\* A file with the recipes of a scraped row of two outputs and with those of
\* every helper.
C14_Witness ==
  /\ RecipesWritten
  /\ Cardinality({ r \in WrittenRecipes : IsScraped(r) }) = 2
  /\ \A n \in {"White Bed", "Black Shulker Box", "Wooden Hoe", "Firework Rocket",
                "Arrow of Luck", "Written Book"} :
       \E r \in WrittenRecipes : r.item = Str(n)

\* C15: every slot of every recipe is null, one ingredient string, or a
\* non-empty list whose elements are all ingredient strings.
C15_SlotsWellFormed ==
  RecipesWritten =>
    \A r \in WrittenRecipes : \A k \in DOMAIN r.recipe :
      LET slot == r.recipe[k]
      IN \/ slot = Null
         \/ IsStr(slot)
         \/ /\ IsList(slot)
            /\ slot.list # <<>>
            /\ \A e \in DOMAIN slot.list : IsStr(slot.list[e])

\* The recipes whose lists hold null.
C15_ListsWithNull ==
  { r.item.str : r \in { q \in WrittenRecipes :
                           \E k \in DOMAIN q.recipe :
                             /\ IsList(q.recipe[k])
                             /\ \E e \in DOMAIN q.recipe[k].list :
                                  q.recipe[k].list[e] = Null } }

\* Without a scraped row the lists with null are those of the fireworks.
C15_FireworkListsHoldNull ==
  (RecipesWritten /\ call.rows = <<>>) =>
    C15_ListsWithNull = {"Firework Star", "Firework Rocket"}

\* C16: every record of recipes.json has the item name, the output
\* quantity, the grid and the shapeless flag.
C16_AllFourParts ==
  RecipesWritten =>
    \A r \in WrittenRecipes : {"item", "quantity", "recipe", "shapeless"} \subseteq DOMAIN r

\* The records of the helpers have the four parts; a scraped record has the
\* item and the grid only.
C16_ScrapedLackQuantityAndShapeless ==
  RecipesWritten =>
    \A r \in WrittenRecipes :
      DOMAIN r = IF IsScraped(r) THEN {"item", "recipe"}
                 ELSE {"item", "quantity", "recipe", "shapeless"}

--------------------------------------------------------------------------
(* Properties of normalizePrefix *)

OnlySlashes(t) == \A i \in 1..Len(t) : t[i] = "/"

\* C18: the key is formed from the prefix stripped of all its leading and
\* trailing slashes and followed by exactly one "/", or from no prefix when
\* the value is empty or holds slashes only; the prefix v1 gives v1/blocks/...
\* and v1/items/...; and a normalized prefix is normalized to itself.
C18_PrefixNormalized ==
  (call.fn = "uploadKey" /\ ret # NotReturned) =>
    LET raw == call.prefix
        p == ret.value.prefix
    IN /\ ret.value.key = p \o call.rel
       /\ OnlySlashes(raw) => p = <<>>
       /\ ~OnlySlashes(raw) =>
            \E i, j \in 1..Len(raw) :
              /\ i <= j
              /\ raw[i] # "/" /\ raw[j] # "/"
              /\ OnlySlashes(SubSeq(raw, 1, i - 1))
              /\ OnlySlashes(SubSeq(raw, j + 1, Len(raw)))
              /\ p = SubSeq(raw, i, j) \o <<"/">>
       /\ raw = <<"v", "1">> => ret.value.key = <<"v", "1", "/">> \o call.rel
       /\ normalizePrefix(p) = p

\* A prefix with slashes at both ends and inside.
C18_Witness ==
  /\ call.fn = "uploadKey"
  /\ ret # NotReturned
  /\ call.prefix = <<"/", "/", "v", "/">>
  /\ ret.value.key = <<"v", "/", "blocks", "/", "stone.png">>

\* The example of the README.
C18_ReadmeExample ==
  /\ call.fn = "uploadKey"
  /\ ret # NotReturned
  /\ call.prefix = <<"v", "1">>
  /\ ret.value.key = <<"v", "1", "/", "items", "/", "stick.png">>

--------------------------------------------------------------------------
(* Properties of getRenewableStatus *)

\* What a rule returns for a name it matches.
RuleValue(rule, name) ==
  CASE rule = "renewable.true" -> TRUE
    [] rule = "renewable.false" -> FALSE
    [] rule = "endsWith.true" -> TRUE
    [] rule = "endsWith.false" -> FALSE
    [] rule = "contains.false" -> FALSE
    [] rule = "pattern1" -> PatternValue(1, name)
    [] rule = "pattern2" -> PatternValue(2, name)
    [] rule = "pattern3" -> PatternValue(3, name)
    [] rule = "pattern4" -> PatternValue(4, name)
    [] rule = "pattern5" -> PatternValue(5, name)

\* The first rule of the listed order that matches the name, 0 without one.
FirstMatching(name) ==
  IF \E i \in DOMAIN RenewableRules : RuleMatches(RenewableRules[i], name)
    THEN CHOOSE i \in DOMAIN RenewableRules :
           /\ RuleMatches(RenewableRules[i], name)
           /\ \A j \in 1..(i - 1) : ~RuleMatches(RenewableRules[j], name)
    ELSE 0

\* C20: the rules are tried in the listed order, the first rule that matches
\* decides the result, the page is read only when no rule matches, and every
\* rule listed is the deciding rule for at least one item name.
C20_OrderedRulesEachDeciding ==
  (call.fn = "getRenewableStatus" /\ ret # NotReturned) =>
     /\ ret.value = IF FirstMatching(call.name) = 0 THEN RenewableOfPage(call.text)
                    ELSE Bool(RuleValue(RenewableRules[FirstMatching(call.name)], call.name))
     /\ \A i \in DOMAIN RenewableRules :
          \E n \in ItemNames : DecidingRule(n) = RenewableRules[i]

\* The first half of C20 alone: the first matching rule decides.
C20_FirstMatchingDecides ==
  (call.fn = "getRenewableStatus" /\ ret # NotReturned) =>
     ret.value = IF FirstMatching(call.name) = 0 THEN RenewableOfPage(call.text)
                 ELSE Bool(RuleValue(RenewableRules[FirstMatching(call.name)], call.name))

\* A name that the rule of the banner patterns matches is matched by the
\* substring rule before it.
C20_BannerPatternRuleShadowed ==
  call.fn = "getRenewableStatus" =>
     /\ RuleMatches("pattern2", call.name) => RuleMatches("contains.false", call.name)
     /\ DecidingRule(call.name) # "pattern2"

\* A banner pattern other than Snout and Thing gets the value of the
\* substring rule, not that of its pattern rule.
C20_BannerPatternDecided ==
  /\ call.fn = "getRenewableStatus"
  /\ ret # NotReturned
  /\ call.name = <<"Flower", "Charge", "Banner", "Pattern">>
  /\ ret.value = Bool(FALSE)
  /\ PatternValue(2, call.name)

--------------------------------------------------------------------------
(* Properties of the configuration *)

ConfigLoaded == call.fn = "loadConfiguration" /\ ret # NotReturned

\* The value that follows the first occurrence of a flag, Undefined without
\* the flag or without a value after it.
FlagValue(flag) ==
  IF \E i \in 1..(Len(call.argv) - 1) :
       call.argv[i] = flag /\ \A j \in 1..(i - 1) : call.argv[j] # flag
    THEN call.argv[1 + CHOOSE i \in 1..(Len(call.argv) - 1) :
                          call.argv[i] = flag /\ \A j \in 1..(i - 1) : call.argv[j] # flag]
    ELSE Undefined

FlagVariables ==
  { <<"--include", "R2_INCLUDE">>, <<"--bucket", "R2_BUCKET">>, <<"--prefix", "R2_PREFIX">> }

\* C21: a flag with a value decides its option whatever the variable holds;
\* a variable set in the process environment keeps its value when the env
\* file is loaded; and with no --include value and no R2_INCLUDE variable the
\* include list is blocks and items.
C21_ConfigPrecedence ==
  ConfigLoaded =>
    LET envLoaded == ret.value.env
        opts == ret.value.options
    IN /\ \A k \in DOMAIN call.env :
            call.env[k] # Undefined => envLoaded[k] = call.env[k]
       /\ \A fv \in FlagVariables :
            FlagValue(Flag(fv[1])) # Undefined =>
              \A v \in {Undefined, <<>>, <<"blocks">>, <<"bkt">>, <<"v1">>} :
                parseArgvAndEnv(call.argv, [envLoaded EXCEPT ![fv[2]] = v]) = opts
       /\ (~opts.thrown /\ FlagValue(Flag("--include")) = <<"items">>) =>
            opts.value.includeDirs = << <<"items">> >>
       /\ (~opts.thrown /\ FlagValue(Flag("--bucket")) # Undefined) =>
            opts.value.bucket = FlagValue(Flag("--bucket"))
       /\ (~opts.thrown /\ hasFlag(call.argv, Flag("--dry-run"))) => opts.value.dryRun
       /\ (~opts.thrown /\ FlagValue(Flag("--include")) = Undefined
             /\ envLoaded["R2_INCLUDE"] = Undefined) =>
            opts.value.includeDirs = << <<"blocks">>, <<"items">> >>

\* A flag, a variable of the environment and a line of the env file all name
\* the include list, and the file names the bucket too.
C21_Witness ==
  /\ ConfigLoaded
  /\ call.argv = <<Flag("--include"), <<"items">>>>
  /\ call.env = EnvOf(<<"blocks">>, <<"bkt">>, Undefined, Undefined)
  /\ call.envFile = << <<"R2_INCLUDE", "=", "items">>,
                       <<"R2_BUCKET", "=", "filebkt", " ", " ", "#", " ", "the", " ", "bucket">> >>
  /\ ret.value.env = call.env
  /\ ret.value.options =
       Returned([includeDirs |-> << <<"items">> >>, bucket |-> <<"bkt">>,
                 prefix |-> <<>>, dryRun |-> FALSE])

\* The values of the env file are used for the variables that are not set.
C21_FileFillsUnsetVariables ==
  /\ ConfigLoaded
  /\ call.argv = <<>>
  /\ call.env = EnvOf(Undefined, Undefined, Undefined, Undefined)
  /\ call.envFile = << <<"R2_BUCKET", "=", "filebkt", " ", " ", "#", " ", "the", " ", "bucket">>,
                       <<"R2_PREFIX", "=", "'", "/", "v3", "/", "'">> >>
  /\ ret.value.options =
       Returned([includeDirs |-> << <<"blocks">>, <<"items">> >>, bucket |-> <<"filebkt">>,
                 prefix |-> <<"v3", "/">>, dryRun |-> FALSE])

\* A variable that is set to the empty string names no directory: nothing is
\* included.
C21_EmptyIncludeVariable ==
  /\ ConfigLoaded
  /\ call.argv = <<>>
  /\ call.env["R2_INCLUDE"] = <<>>
  /\ ~ret.value.options.thrown
  /\ ret.value.options.value.includeDirs = <<>>

--------------------------------------------------------------------------
(* Names in the lists *)

TimesNamed(list, n) == Cardinality({ k \in 1..Len(list) : list[k].name = n })

\* C22: in the blocks script the list never holds two Block records with one
\* name, whatever the rows of the table and the interleaving of the tasks.
C22_BlockNamesUnique ==
  script = "blocks" => \A n \in BlockNames : TimesNamed(blocks, n) <= 1

\* Two rows of one name whose tasks both passed the check of line 170 before
\* either pushed its record.
C22_TwoTasksOfOneName ==
  /\ script = "blocks"
  /\ \E r1, r2 \in Rows :
       /\ r1 # r2
       /\ tPc[r1] = "page" /\ tPc[r2] = "page"
       /\ tName[r1] = tName[r2]
       /\ TimesNamed(blocks, tName[r1]) = 0

\* The records of name n the run has appended to the items list.
AppendedNamed(n) == TimesNamed(items, n) - TimesNamed(loaded, n)

\* C23: a run of the items script appends no record of a name items.json
\* held at the start, and appends no name twice, regular or special.
C23_NamesAppendedOnce ==
  script = "items" =>
    \A n \in RowNames \cup SpecialItemNames :
      AppendedNamed(n) <= (IF n \in names THEN 0 ELSE 1)

\* Two rows of one name: both pass shouldProcessItem, whose `names` is never
\* updated, and both records are appended.
C23_RegularNameTwice ==
  /\ script = "items"
  /\ \E n \in RowNames : AppendedNamed(n) = 2 /\ passes = {"regular"}

\* Two special pages showing an item of one name both append it.
C23_SpecialNameTwice ==
  /\ script = "items"
  /\ \E n \in SpecialItemNames : AppendedNamed(n) = 2

\* The part that holds: a regular row whose name items.json held at the start
\* is left without record.
C23_LoadedRegularNameSkipped ==
  script = "items" => \A n \in names : AppendedNamed(n) = 0

--------------------------------------------------------------------------
(* Failed items leave no record *)

\* The task of row r ends in a catch block of populateItemsJson.
RegularItemFailed(r) ==
  /\ script = "items"
  /\ r \in Rows
  /\ tPc[r] \in {"getNamespacedId", "itemPage"}
  /\ tPc'[r] = "done"
  /\ erroredItems' # erroredItems

\* C24: the step in which a regular item fails, at whatever stage, leaves
\* the items list and items.json as they were: no record is appended and the
\* file is not rewritten.
C24_FailedItemLeavesNoRecord ==
  [][\A r \in 1..MaxRows : RegularItemFailed(r) => UNCHANGED <<items, itemsJson, appended>>]_vars

\* A regular item has failed and the list and the file are as loaded.
C24_Witness ==
  /\ script = "items"
  /\ \E n \in RowNames : <<"regular", n>> \in failedItems
  /\ items = loaded
  /\ itemsJson = loaded
  /\ \E r \in Rows : tPc[r] = "done"

--------------------------------------------------------------------------
(* Pages are closed *)

\* C25: the page a task opened for its item or block is closed when the task
\* has ended, and the page of a special-item page is closed when
\* processSpecialItemPage has returned, whichever path the task took.
C25_PagesClosedWhenTaskEnds ==
  /\ \A r \in Rows : tPc[r] = "done" => r \notin openPages
  /\ spPc \in {"idle", "newPage"} => SpecialPage \notin openPages

\* All tasks of the regular pass have ended, one with a record and one with
\* an error, a special page has been worked through, the browser is still
\* open and no page is.
C25_Witness ==
  /\ script = "items"
  /\ browserOpen
  /\ AllTasksDone
  /\ appended # EmptyBag
  /\ \E k \in failedItems : k[1] = "regular"
  /\ spIdx = 2 /\ spPc = "newPage"
  /\ openPages = {}

\* The blocks script: a row has its record, another row was left, and no
\* page is open.
C25_BlocksWitness ==
  /\ script = "blocks"
  /\ AllTasksDone
  /\ nRows >= 2
  /\ BagCardinality(appended) = 1
  /\ openPages = {}

--------------------------------------------------------------------------
(* The end of a run of the items script *)

\* C26: a run of the items script ends by writing the error report once and
\* then closing the browser, and once the report has been written no item is
\* processed: no task moves, no record is appended or written and no error
\* is recorded.
C26_NoItemProcessedAfterReport ==
  [][(script = "items" /\ reportCalls >= 1) =>
       /\ tPc' = tPc
       /\ items' = items
       /\ itemsJson' = itemsJson
       /\ erroredItems' = erroredItems]_vars

\* getItemName has rejected, main has written the report and awaits
\* browser.close(), and the task of another row is at work on its item page.
C26_TaskAtWorkAfterReport ==
  /\ script = "items"
  /\ reportCalls = 1
  /\ mainPc = "closing"
  /\ browserOpen
  /\ \E r \in Rows : tPc[r] = "itemPage" /\ r \in openPages
  /\ \E r \in Rows : tPc[r] = "queued"

\* The part that holds: writeErroredItemsReport is called once, when main
\* leaves its try block, and the browser is closed after that call only.
C26_ReportOnceThenClose ==
  script = "items" =>
    /\ reportCalls <= 1
    /\ (reportCalls = 1) <=> (mainPc \in {"closing", "done"})
    /\ ~browserOpen => mainPc = "done"

C26_ClosedAfterThrow ==
  /\ script = "items"
  /\ mainPc = "done"
  /\ ~browserOpen
  /\ reportCalls = 1
  /\ passes = {}

--------------------------------------------------------------------------
(* Termination of the block tasks *)

BlockTaskPending(r) == script = "blocks" /\ r \in Rows /\ tPc[r] # "done"
BlockTaskFinished(r) == r \in Rows /\ tPc[r] = "done"

\* C27: every block task of the blocks script finishes in the end, by a
\* record, a skipped row or a logged failure, when the operations it awaits
\* return or throw and the process is not ended by an unhandled rejection;
\* the wait for the description of the block page ends.
C27_EveryBlockTaskFinishes ==
  \A r \in 1..MaxBlockRows :
    BlockTaskPending(r) ~> (BlockTaskFinished(r) \/ crashed)

\* A task waits for the description of a page that has none, and a queued
\* row waits for a place of the limit behind four such tasks.
C27_AllPlacesWaitForDescription ==
  /\ script = "blocks"
  /\ ~crashed
  /\ Cardinality({ r \in Rows : tPc[r] = "description" }) = 4
  /\ \E r \in Rows : tPc[r] = "queued"

\* The part that holds: a task that does not finish is kept by a wait for a
\* description, its own or, through the limit, that of another task.
C27_FinishesUnlessDescriptionMissing ==
  \A r \in 1..MaxBlockRows :
    BlockTaskPending(r) ~>
      (BlockTaskFinished(r) \/ crashed \/ \E q \in Rows : tPc[q] = "description")

--------------------------------------------------------------------------
(* The special-case table and the Block record *)

\* The blast resistances of the table that are no integers; parseInt
\* returns none of them.
FractionLiterals == {"0.2", "0.8"}

IntegerOfLiteral(lit) ==
  CASE lit = "0" -> 0 [] lit = "2" -> 2 [] lit = "3" -> 3 [] lit = "6" -> 6

\* The record holds value v of the table for attribute a.
RecordHolds(rec, a, v) ==
  IF a = "blastResistance"
    THEN v \notin FractionLiterals /\ rec.blastResistance = Number(IntegerOfLiteral(v))
    ELSE a \in DOMAIN rec.attributes /\ rec.attributes[a] = v

\* Entry k is the first of the matching entries to assign attribute a.
FirstToAssign(matched, k, a) ==
  /\ k \in matched
  /\ a \in DOMAIN types[k].attributes
  /\ ~\E j \in matched : j < k /\ a \in DOMAIN types[j].attributes

\* C28: the Block record holds, for each of tool, flammable, transparent,
\* luminance and blastResistance, the value of the first matching entry of
\* the special-case table that assigns it.
C28_TableValuesInRecord ==
  (RecordReturned /\ call.fn = "blockRecord") =>
    \A k \in call.matched : \A a \in DOMAIN types[k].attributes :
      FirstToAssign(call.matched, k, a) => RecordHolds(TheRecord, a, types[k].attributes[a])

\* A record whose only matching entry gives blast resistance 0 while the
\* block page gives 6: the record holds 6.
C28_PageOverwritesTable ==
  /\ RecordReturned
  /\ call.fn = "blockRecord"
  /\ \E k \in call.matched :
       /\ FirstToAssign(call.matched, k, "blastResistance")
       /\ types[k].attributes.blastResistance = "0"
  /\ TheRecord.blastResistance = Number(6)

\* The part that holds: tool, flammable, transparent and luminance are those
\* of the first matching entry that assigns them.
C28_FirstMatchWinsButBlastResistance ==
  (RecordReturned /\ call.fn = "blockRecord") =>
    \A k \in call.matched : \A a \in DOMAIN types[k].attributes \ {"blastResistance"} :
      FirstToAssign(call.matched, k, a) => RecordHolds(TheRecord, a, types[k].attributes[a])

\* Two matching entries give one attribute different values and the record
\* holds that of the first.
C28_FirstOfTwo ==
  /\ RecordReturned
  /\ call.fn = "blockRecord"
  /\ \E i, j \in call.matched : \E a \in {"tool", "flammable", "transparent"} :
       /\ i < j
       /\ a \in DOMAIN types[i].attributes
       /\ a \in DOMAIN types[j].attributes
       /\ types[i].attributes[a] # types[j].attributes[a]
       /\ TheRecord.attributes[a] = types[i].attributes[a]

====
